---- MODULE Spec2Model ----
(***************************************************************************)
(* Orion assistant: the Fact Store (core/memory.py), the legacy            *)
(* 'remember:' skill (skills/registry.py) and the Skill Registry           *)
(* (core/plugins.py, core/admin.py).                                       *)
(*                                                                         *)
(* Text is a sequence of one-character strings.  A file's content is a     *)
(* sequence of JSON tokens; json.dumps and json.loads are the operators    *)
(* Dumps and Loads over that token sequence, so a truncated or interleaved *)
(* write yields a token sequence that Loads may reject.                    *)
(***************************************************************************)
EXTENDS Integers, Sequences, FiniteSets, TLC

VARIABLES
    memFile,    \* the file <base>/memory.json: [exists, text]
    tmpFile,    \* the file <base>/memory.json.tmp: [exists, text]
    last,       \* the last completed call of the main process and its outcome
    hist,       \* the turns the log was given: those it started on, then each appended
    pc,         \* per writer process: where it stands inside a mutation
    cur,        \* per writer process: the mutation it is performing
    pend,       \* per writer process: the text still to be written to its handle
    off,        \* per writer process: the file offset of its handle
    hnd,        \* per writer process: where the inode of its open handle lives
    stateFile,  \* the file skills/_enabled.json
    skillsDir,  \* skills/*.py: the candidate modules, in glob order
    skills,     \* ctx.skills: the active skill set (names in insertion order)
    rules,      \* ctx.router.rules: the rule table [(name, pattern)]
    lastSkill,  \* the last completed registry call and its outcome
    awake,      \* run_loop: the awake flag
    lpc,        \* run_loop: where the loop stands ("off" before run_loop)
    utt,        \* run_loop: the utterance being processed (user)
    trace,      \* what was done for the current utterance, in order
    llm,        \* the LLM session and the locals of llm_respond
    heard,      \* the number of utterances taken from the recorder
    mic         \* mic_text: the caller's position, the worker threads, the results

memVars == <<memFile, tmpFile, last, hist>>
procVars == <<pc, cur, pend, off, hnd>>
skillVars == <<stateFile, skillsDir, skills, rules, lastSkill>>
loopVars == <<awake, lpc, utt, trace, llm, heard, mic>>
vars == <<memFile, tmpFile, last, hist, pc, cur, pend, off, hnd,
          stateFile, skillsDir, skills, rules, lastSkill,
          awake, lpc, utt, trace, llm, heard, mic>>

-----------------------------------------------------------------------------
(* Text: str methods used by the code *)

LOWER ==
    <<"a", "b", "c", "d", "e", "f", "g", "h", "i", "j", "k", "l", "m",
      "n", "o", "p", "q", "r", "s", "t", "u", "v", "w", "x", "y", "z">>
UPPER ==
    <<"A", "B", "C", "D", "E", "F", "G", "H", "I", "J", "K", "L", "M",
      "N", "O", "P", "Q", "R", "S", "T", "U", "V", "W", "X", "Y", "Z">>
LowerCaseLetters == { LOWER[i] : i \in 1..26 }
UpperCaseLetters == { UPPER[i] : i \in 1..26 }

LowerOf == [c \in UpperCaseLetters |-> LOWER[CHOOSE i \in 1..26 : UPPER[i] = c]]
UpperOf == [c \in LowerCaseLetters |-> UPPER[CHOOSE i \in 1..26 : LOWER[i] = c]]

Lower1(c) == IF c \in UpperCaseLetters THEN LowerOf[c] ELSE c
Upper1(c) == IF c \in LowerCaseLetters THEN UpperOf[c] ELSE c

StrLower(s) == [i \in 1..Len(s) |-> Lower1(s[i])]

StrReplace(s, c, d) == [i \in 1..Len(s) |-> IF s[i] = c THEN d ELSE s[i]]

IsSpace(c) == c = " "

RECURSIVE LStrip(_)
LStrip(s) == IF s # <<>> /\ IsSpace(Head(s)) THEN LStrip(Tail(s)) ELSE s

RECURSIVE RStrip(_)
RStrip(s) ==
    IF s # <<>> /\ IsSpace(s[Len(s)]) THEN RStrip(SubSeq(s, 1, Len(s) - 1)) ELSE s

StrStrip(s) == RStrip(LStrip(s))

\* needle in hay
StrIn(needle, hay) ==
    \E i \in 0..(Len(hay) - Len(needle)) :
        SubSeq(hay, i + 1, i + Len(needle)) = needle

\* index of the first occurrence of the character c in s, 0 if none
FirstIndex(s, c) ==
    IF \E i \in 1..Len(s) : s[i] = c
    THEN CHOOSE i \in 1..Len(s) : s[i] = c /\ \A j \in 1..(i - 1) : s[j] # c
    ELSE 0

\* s.split(): the maximal runs of non-whitespace characters
RECURSIVE StrSplit(_)
StrSplit(s) ==
    LET t == LStrip(s)
        sp == FirstIndex(t, " ")
    IN  IF t = <<>> THEN <<>>
        ELSE IF sp = 0 THEN <<t>>
        ELSE <<SubSeq(t, 1, sp - 1)>> \o StrSplit(SubSeq(t, sp + 1, Len(t)))

\* " ".join(parts)
RECURSIVE StrJoin(_)
StrJoin(parts) ==
    IF parts = <<>> THEN <<>>
    ELSE IF Len(parts) = 1 THEN parts[1]
    ELSE parts[1] \o <<" ">> \o StrJoin(Tail(parts))

-----------------------------------------------------------------------------
(* re: the regular expressions of the code, as syntax trees, and matching *)

DecimalDigits == {"0", "1", "2", "3", "4", "5", "6", "7", "8", "9"}

\* \w
WordChars == LowerCaseLetters \cup UpperCaseLetters \cup DecimalDigits \cup {"_"}

\* a literal, compared as re.I compares it
Lit(str) == [op |-> "lit", str |-> str]
\* one character of a class [...]
Cls(set) == [op |-> "cls", set |-> set]
\* .
AnyChar == [op |-> "any"]
\* r1 r2 ...
Cat(parts) == [op |-> "cat", parts |-> parts]
\* r1 | r2 | ...
Alt(parts) == [op |-> "alt", parts |-> parts]
\* r{lo,hi}
Rep(r, lo, hi) == [op |-> "rep", sub |-> r, lo |-> lo, hi |-> hi]
\* r+, r*, r?
Plus(r) == [op |-> "plus", sub |-> r]
Star(r) == [op |-> "star", sub |-> r]
Opt(r) == [op |-> "opt", sub |-> r]
\* \b, ^, $
WB == [op |-> "wb"]
BOL == [op |-> "bol"]
EOL == [op |-> "eol"]

\* \s
WS == Cls({" "})

\* \b holds at position i (between s[i] and s[i+1])
AtWordBoundary(s, i) ==
    LET before == i >= 1 /\ s[i] \in WordChars
        after == i < Len(s) /\ s[i + 1] \in WordChars
    IN  before # after

\* The positions at which a match of r that starts at position i of s can
\* end (positions count the characters before them, 0..Len(s)).
RECURSIVE Ends(_, _, _)
RECURSIVE CatEnds(_, _, _)
RECURSIVE Closure(_, _, _)
RECURSIVE RepEnds(_, _, _, _, _)
Ends(r, s, i) ==
    CASE r.op = "lit" ->
            IF i + Len(r.str) <= Len(s)
               /\ StrLower(SubSeq(s, i + 1, i + Len(r.str))) = StrLower(r.str)
            THEN {i + Len(r.str)} ELSE {}
      [] r.op = "cls" ->
            IF i < Len(s) /\ (s[i + 1] \in r.set \/ Lower1(s[i + 1]) \in r.set)
            THEN {i + 1} ELSE {}
      [] r.op = "any" -> IF i < Len(s) THEN {i + 1} ELSE {}
      [] r.op = "cat" -> CatEnds(r.parts, s, {i})
      [] r.op = "alt" -> UNION { Ends(r.parts[k], s, i) : k \in 1..Len(r.parts) }
      [] r.op = "rep" -> RepEnds(r.sub, s, {i}, r.lo, r.hi)
      [] r.op = "plus" -> Closure(r.sub, s, Ends(r.sub, s, i))
      [] r.op = "star" -> Closure(r.sub, s, {i})
      [] r.op = "opt" -> {i} \cup Ends(r.sub, s, i)
      [] r.op = "wb" -> IF AtWordBoundary(s, i) THEN {i} ELSE {}
      [] r.op = "bol" -> IF i = 0 THEN {i} ELSE {}
      [] r.op = "eol" -> IF i = Len(s) THEN {i} ELSE {}

CatEnds(parts, s, from) ==
    IF parts = <<>> \/ from = {} THEN from
    ELSE CatEnds(Tail(parts), s, UNION { Ends(Head(parts), s, i) : i \in from })

Closure(r, s, from) ==
    LET more == from \cup UNION { Ends(r, s, i) : i \in from }
    IN  IF more = from THEN from ELSE Closure(r, s, more)

RepEnds(r, s, from, lo, hi) ==
    IF hi = 0 \/ from = {} THEN (IF lo = 0 THEN from ELSE {})
    ELSE (IF lo = 0 THEN from ELSE {})
         \cup RepEnds(r, s, UNION { Ends(r, s, i) : i \in from },
                      IF lo = 0 THEN 0 ELSE lo - 1, hi - 1)

\* pattern.search(s): a match starts somewhere in s
Search(r, s) == \E i \in 0..Len(s) : Ends(r, s, i) # {}

\* pattern.fullmatch(s)
FullMatch(r, s) == Len(s) \in Ends(r, s, 0)

-----------------------------------------------------------------------------
(* JSON documents as token sequences *)

Tok(t) == [t |-> t, a |-> <<>>, b |-> <<>>]

\* "key": "value" inside the facts object
Pair(k, v) == [t |-> "pair", a |-> k, b |-> v]

\* one element of the conversations array: {"user": u}, {"bot": b} or both
TurnU(u) == [t |-> "turnU", a |-> u, b |-> <<>>]
TurnB(b) == [t |-> "turnB", a |-> <<>>, b |-> b]
TurnUB(u, b) == [t |-> "turnUB", a |-> u, b |-> b]

IsTurn(x) == x.t \in {"turnU", "turnB", "turnUB"}

NoFile == [exists |-> FALSE, text |-> <<>>]
File(text) == [exists |-> TRUE, text |-> text]

\* A parsed JSON value.  kind "dict" is an object whose "facts" member (if
\* present) is an object of strings and whose "conversations" member (if
\* present) is an array of turns; kind "list" is any JSON value that is not
\* an object.
Dict(hf, f, hc, c) ==
    [kind |-> "dict", hasFacts |-> hf, facts |-> f, hasConv |-> hc, conv |-> c]

EmptyDoc == Dict(TRUE, <<>>, TRUE, <<>>)
ListValue == [kind |-> "list", hasFacts |-> FALSE, facts |-> <<>>,
              hasConv |-> FALSE, conv |-> <<>>]
NotJson == [kind |-> "error", hasFacts |-> FALSE, facts |-> <<>>,
            hasConv |-> FALSE, conv |-> <<>>]

\* dict.get(k): <<>> for None, <<v>> for a value
RECURSIVE DictGet(_, _)
DictGet(facts, k) ==
    IF facts = <<>> THEN <<>>
    ELSE IF facts[Len(facts)].a = k THEN <<facts[Len(facts)].b>>
    ELSE DictGet(SubSeq(facts, 1, Len(facts) - 1), k)

\* d[k] = v on an insertion-ordered dict: an existing key keeps its place
DictSet(facts, k, v) ==
    IF \E i \in 1..Len(facts) : facts[i].a = k
    THEN [i \in 1..Len(facts) |-> IF facts[i].a = k THEN Pair(k, v) ELSE facts[i]]
    ELSE Append(facts, Pair(k, v))

\* building a dict from the pairs of a JSON object: a repeated key keeps the
\* last value
RECURSIVE DictOf(_)
DictOf(pairs) ==
    IF pairs = <<>> THEN <<>>
    ELSE LET n == Len(pairs)
         IN  DictSet(DictOf(SubSeq(pairs, 1, n - 1)), pairs[n].a, pairs[n].b)

\* json.dumps(obj)
Dumps(d) ==
    IF d.kind = "list" THEN <<Tok("list")>>
    ELSE <<Tok("{")>>
         \o (IF d.hasFacts THEN <<Tok("facts")>> \o d.facts \o <<Tok("endfacts")>>
             ELSE <<>>)
         \o (IF d.hasConv THEN <<Tok("conv")>> \o d.conv \o <<Tok("endconv")>>
             ELSE <<>>)
         \o <<Tok("}")>>

\* the conversations member and nothing after it
ConvSection(s) ==
    /\ Len(s) >= 2
    /\ s[1].t = "conv"
    /\ s[Len(s)].t = "endconv"
    /\ \A i \in 2..(Len(s) - 1) : IsTurn(s[i])

\* position of the token closing the facts member, 0 if it is not closed
FactsEnd(s) ==
    IF \E j \in 2..Len(s) : s[j].t = "endfacts"
    THEN CHOOSE j \in 2..Len(s) :
            s[j].t = "endfacts" /\ \A i \in 2..(j - 1) : s[i].t # "endfacts"
    ELSE 0

\* json.loads(text): the value, or NotJson where json.loads raises
Loads(text) ==
    LET n == Len(text)
        inner == SubSeq(text, 2, n - 1)
        fe == FactsEnd(inner)
        rest == SubSeq(inner, fe + 1, Len(inner))
    IN  IF text = <<Tok("list")>> THEN ListValue
        ELSE IF n < 2 \/ text[1].t # "{" \/ text[n].t # "}" THEN NotJson
        ELSE IF inner = <<>> THEN Dict(FALSE, <<>>, FALSE, <<>>)
        ELSE IF inner[1].t = "facts"
        THEN IF fe = 0 \/ \E i \in 2..(fe - 1) : inner[i].t # "pair" THEN NotJson
             ELSE IF rest = <<>>
             THEN Dict(TRUE, DictOf(SubSeq(inner, 2, fe - 1)), FALSE, <<>>)
             ELSE IF ConvSection(rest)
             THEN Dict(TRUE, DictOf(SubSeq(inner, 2, fe - 1)),
                       TRUE, SubSeq(rest, 2, Len(rest) - 1))
             ELSE NotJson
        ELSE IF ConvSection(inner)
        THEN Dict(FALSE, <<>>, TRUE, SubSeq(inner, 2, Len(inner) - 1))
        ELSE NotJson

-----------------------------------------------------------------------------
(* core/memory.py *)

MAX_CONVERSATIONS == 500

\* The two files of the store's directory.
Fs(mem, tmp) == [mem |-> mem, tmp |-> tmp]

\* a path that is not the temporary file's: the store file itself
InPlacePath == "mem"

\* mem_path.with_suffix(".json.tmp"): the path _safe_write writes to
TmpPath == "tmp"

\* open(path, "w"): creates the file, or truncates the existing one
FsOpen(fs, path) == [fs EXCEPT ![path] = File(<<>>)]

\* the text of a file after write(chunk) at offset o; a write past the end
\* leaves a hole of NUL bytes
WriteAt(f, o, chunk) ==
    LET n == Len(f.text)
        before == IF o <= n THEN SubSeq(f.text, 1, o)
                  ELSE f.text \o [i \in 1..(o - n) |-> Tok("nul")]
    IN  File(before \o chunk \o SubSeq(f.text, o + Len(chunk) + 1, n))

\* write(chunk) at offset o through a handle whose inode lives at loc; an
\* inode that no path names any more ("orphan") is not visible
FsWrite(fs, loc, o, chunk) ==
    IF loc \in {"mem", "tmp"} THEN [fs EXCEPT ![loc] = WriteAt(@, o, chunk)] ELSE fs

\* tmp.replace(mem_path): rename(2), the directory entry of mem now names
\* the inode of tmp
FsReplace(fs) == [mem |-> fs.tmp, tmp |-> NoFile]

\* Memory._safe_write run to completion by the only writer
SafeWrite(fs, text) == FsReplace(FsWrite(FsOpen(fs, TmpPath), TmpPath, 0, text))

\* Memory._read: the exception raised ("none" if none) and the value returned
MemRead(f) ==
    IF ~f.exists THEN [exc |-> "FileNotFoundError", data |-> NotJson]
    ELSE IF f.text = <<>> THEN [exc |-> "none", data |-> EmptyDoc]
    ELSE IF Loads(f.text).kind = "error"
    THEN [exc |-> "JSONDecodeError", data |-> NotJson]
    ELSE [exc |-> "none", data |-> Loads(f.text)]

\* data.get("facts", {})
GetFacts(data) == IF data.hasFacts THEN data.facts ELSE <<>>

\* a store that keeps the first value written for a key
RememberDataKeepFirst(data, key, value) ==
    IF DictGet(GetFacts(data), key) # <<>> THEN data
    ELSE [data EXCEPT !.hasFacts = TRUE, !.facts = Append(GetFacts(data), Pair(key, value))]

\* data.setdefault("facts", {})[key] = value
RememberData(data, key, value) ==
    [data EXCEPT !.hasFacts = TRUE, !.facts = DictSet(GetFacts(data), key, value)]

\* a trim that keeps the oldest turns, conv[:MAX_CONVERSATIONS]
TrimConvKeepOldest(conv) ==
    IF Len(conv) > MAX_CONVERSATIONS THEN SubSeq(conv, 1, MAX_CONVERSATIONS) ELSE conv

\* conv[-MAX_CONVERSATIONS:] when the list is longer than the cap
TrimConv(conv) ==
    IF Len(conv) > MAX_CONVERSATIONS
    THEN SubSeq(conv, Len(conv) - MAX_CONVERSATIONS + 1, Len(conv))
    ELSE conv

\* the entry built from the optional user and bot texts (<<>> is None,
\* <<s>> is the string s); <<>> if both are None
Entry(user, bot) ==
    IF user # <<>> /\ bot # <<>> THEN <<TurnUB(user[1], bot[1])>>
    ELSE IF user # <<>> THEN <<TurnU(user[1])>>
    ELSE IF bot # <<>> THEN <<TurnB(bot[1])>>
    ELSE <<>>

\* data.setdefault("conversations", []).append(entry), then the trim
AppendData(data, entry) ==
    [data EXCEPT !.hasConv = TRUE,
                 !.conv = TrimConv((IF data.hasConv THEN data.conv ELSE <<>>) \o entry)]

\* What a call does up to its _safe_write: the exception it raises, whether
\* it writes, and the text it writes.
Outcome(exc, writes, text) == [exc |-> exc, writes |-> writes, text |-> text]

\* Memory.remember
MemoryRemember(f, key, value) ==
    LET r == MemRead(f)
    IN  IF r.exc # "none" THEN Outcome(r.exc, FALSE, <<>>)
        ELSE IF r.data.kind # "dict" THEN Outcome("AttributeError", FALSE, <<>>)
        ELSE Outcome("none", TRUE, Dumps(RememberData(r.data, key, value)))

\* an append_conversation that writes the document back whether or not an
\* entry was built
MemoryAppendAlways(f, user, bot) ==
    LET r == MemRead(f)
    IN  IF r.exc # "none" THEN Outcome(r.exc, FALSE, <<>>)
        ELSE IF r.data.kind # "dict" THEN Outcome("AttributeError", FALSE, <<>>)
        ELSE Outcome("none", TRUE, Dumps(AppendData(r.data, Entry(user, bot))))

\* Memory.append_conversation
MemoryAppend(f, user, bot) ==
    LET r == MemRead(f)
    IN  IF r.exc # "none" THEN Outcome(r.exc, FALSE, <<>>)
        ELSE IF Entry(user, bot) = <<>> THEN Outcome("none", FALSE, <<>>)
        ELSE IF r.data.kind # "dict" THEN Outcome("AttributeError", FALSE, <<>>)
        ELSE Outcome("none", TRUE, Dumps(AppendData(r.data, Entry(user, bot))))

\* a constructor without the try/except around _read
MemoryInitNoCatch(f) ==
    IF ~f.exists THEN Outcome("none", TRUE, Dumps(EmptyDoc))
    ELSE Outcome(MemRead(f).exc, FALSE, <<>>)

\* Memory.__init__
MemoryInit(f) ==
    IF ~f.exists THEN Outcome("none", TRUE, Dumps(EmptyDoc))
    ELSE IF MemRead(f).exc # "none" THEN Outcome("none", TRUE, Dumps(EmptyDoc))
    ELSE Outcome("none", FALSE, <<>>)

\* A call's result: the exception and the returned value
Result(exc, ret) == [exc |-> exc, ret |-> ret]

\* Memory.recall: <<>> for None, <<v>> for the value
MemoryRecall(f, key) ==
    LET r == MemRead(f)
    IN  IF r.exc # "none" THEN Result(r.exc, <<>>)
        ELSE IF r.data.kind # "dict" THEN Result("AttributeError", <<>>)
        ELSE Result("none", DictGet(GetFacts(r.data), key))

\* a selection that also requires the value to be truthy
RECURSIVE SelectLikeTruthy(_, _)
SelectLikeTruthy(facts, needle) ==
    IF facts = <<>> THEN <<>>
    ELSE (IF Head(facts).b # <<>>
             /\ (\/ StrIn(needle, StrLower(Head(facts).a))
                 \/ StrIn(needle, StrLower(Head(facts).b)))
          THEN <<Head(facts)>> ELSE <<>>)
         \o SelectLikeTruthy(Tail(facts), needle)

\* the items of facts that the needle selects, in dict order
RECURSIVE SelectLike(_, _)
SelectLike(facts, needle) ==
    IF facts = <<>> THEN <<>>
    ELSE (IF StrIn(needle, StrLower(Head(facts).a))
             \/ StrIn(needle, StrLower(Head(facts).b))
          THEN <<Head(facts)>> ELSE <<>>)
         \o SelectLike(Tail(facts), needle)

\* Memory.facts_like: the list of (k, v)
MemoryFactsLike(f, needle) ==
    LET r == MemRead(f)
    IN  IF r.exc # "none" THEN Result(r.exc, <<>>)
        ELSE IF r.data.kind # "dict" THEN Result("AttributeError", <<>>)
        ELSE Result("none", SelectLike(GetFacts(r.data), StrLower(needle)))

-----------------------------------------------------------------------------
(* skills/registry.py: the legacy 'remember:' skill;  core/admin.py: keys *)

\* key.strip().lower().replace(" ", "_").replace("-", "_")
NormalizeKey(key) ==
    StrReplace(StrReplace(StrLower(StrStrip(key)), " ", "_"), "-", "_")

NOTE == <<"n", "o", "t", "e">>

\* _parse_remember(rest): (key, value)
ParseRemember(rest) ==
    LET s == StrStrip(rest)
        eq == FirstIndex(s, "=")
        k == StrStrip(SubSeq(s, 1, eq - 1))
        v == StrStrip(SubSeq(s, eq + 1, Len(s)))
        parts == StrSplit(s)
    IN  IF s = <<>> THEN [key |-> NOTE, val |-> <<>>]
        ELSE IF eq # 0 THEN [key |-> IF k = <<>> THEN NOTE ELSE k, val |-> v]
        ELSE IF Len(parts) >= 2
        THEN [key |-> parts[1], val |-> StrStrip(StrJoin(Tail(parts)))]
        ELSE [key |-> NOTE, val |-> s]

\* run("remember", query, context): whether mem.remember is reached, and
\* with which key and value
RegistryRemember(query) ==
    LET colon == FirstIndex(query, ":")
        kv == ParseRemember(SubSeq(query, colon + 1, Len(query)))
    IN  IF colon = 0 THEN [stores |-> FALSE, key |-> <<>>, val |-> <<>>]
        ELSE IF kv.val = <<>> /\ kv.key # NOTE
        THEN [stores |-> FALSE, key |-> kv.key, val |-> kv.val]
        ELSE [stores |-> TRUE, key |-> kv.key, val |-> kv.val]

-----------------------------------------------------------------------------
(* Inputs *)

MaxTurns == 2
MaxOver == 3

Keys == {<<"A", " ", "b">>, <<"a", "_", "b">>}
Values == {<<>>, <<"N", "a">>}
Needles == {<<>>, <<"N">>}
TurnInputs == {<<>>, <<<<"h", "i">>>>}

REMEMBER == <<"r", "e", "m", "e", "m", "b", "e", "r">>
Queries ==
    { REMEMBER \o <<":">> \o r :
        r \in { <<" ", "A", " ", "b", " ", "=", " ", "N", "a">>,
                <<" ", "a", "_", "b", " ", " ", "N", "a">>,
                <<" ", "a", "_", "b", "=">>,
                <<"N", "a">> } }
    \cup { REMEMBER \o <<" ", "a", "_", "b">> }

\* the decimal digits of n, as text
DigitOf(d) == <<"0", "1", "2", "3", "4", "5", "6", "7", "8", "9">>[d + 1]
RECURSIVE Digits(_)
Digits(n) == IF n < 10 THEN <<DigitOf(n)>> ELSE Digits(n \div 10) \o <<DigitOf(n % 10)>>

\* documents a store may be started on
Garbage == <<Tok("{"), Tok("facts")>>
WellFormedTexts ==
    { Dumps(EmptyDoc),
      Dumps(Dict(FALSE, <<>>, FALSE, <<>>)),
      Dumps(Dict(TRUE, <<Pair(<<"a", "_", "b">>, <<"N", "a">>)>>, TRUE, <<>>)) }
StartFiles == {NoFile, File(<<>>), File(Garbage)} \cup {File(t) : t \in WellFormedTexts}

-----------------------------------------------------------------------------
(* Calls of the main process, each run to completion *)

\* a and b are the call's text arguments, ret a sequence of tokens
Call(op, a, b, exc, ret) == [op |-> op, a |-> a, b |-> b, exc |-> exc, ret |-> ret]

\* the text of an optional argument (<<>> is None, <<s>> is the string s)
TextOf(opt) == IF opt = <<>> THEN <<>> ELSE opt[1]

\* the conversations of the document in file f, as a reader gets them
ConvOf(f) ==
    LET r == MemRead(f)
    IN  IF r.exc = "none" /\ r.data.kind = "dict" /\ r.data.hasConv
        THEN r.data.conv ELSE <<>>

\* the effect of a call's _safe_write, if it makes one
Commit(o) ==
    LET fs == SafeWrite(Fs(memFile, tmpFile), o.text)
    IN  IF o.writes THEN memFile' = fs.mem /\ tmpFile' = fs.tmp
        ELSE UNCHANGED <<memFile, tmpFile>>

Construct ==
    LET o == MemoryInit(memFile)
    IN  /\ Commit(o)
        /\ last' = Call("init", <<>>, <<>>, o.exc, IF o.writes THEN <<Tok("reset")>> ELSE <<>>)
        /\ hist' = ConvOf(memFile')
        /\ UNCHANGED <<procVars, skillVars, loopVars>>

Remember(k, v) ==
    LET o == MemoryRemember(memFile, k, v)
    IN  /\ last.op # "boot"
        /\ Commit(o)
        /\ last' = Call("remember", k, v, o.exc, <<>>)
        /\ UNCHANGED <<hist, procVars, skillVars, loopVars>>

LegacyRemember(q) ==
    LET r == RegistryRemember(q)
        o == MemoryRemember(memFile, r.key, r.val)
    IN  /\ last.op # "boot"
        /\ IF r.stores
           THEN Commit(o) /\ last' = Call("legacy", r.key, r.val, o.exc, <<Tok("stored")>>)
           ELSE /\ UNCHANGED <<memFile, tmpFile>>
                /\ last' = Call("legacy", r.key, r.val, "none", <<>>)
        /\ UNCHANGED <<hist, procVars, skillVars, loopVars>>

Recall(k) ==
    LET r == MemoryRecall(memFile, k)
    IN  /\ last.op # "boot"
        /\ last' = Call("recall", k, <<>>, r.exc,
                         IF r.ret = <<>> THEN <<>> ELSE <<Pair(k, r.ret[1])>>)
        /\ UNCHANGED <<memFile, tmpFile, hist, procVars, skillVars, loopVars>>

FactsLike(n) ==
    LET r == MemoryFactsLike(memFile, n)
    IN  /\ last.op # "boot"
        /\ last' = Call("facts_like", n, <<>>, r.exc, r.ret)
        /\ UNCHANGED <<memFile, tmpFile, hist, procVars, skillVars, loopVars>>

\* bound: the number of turns the log may be given
AppendConversation(u, b, bound) ==
    LET o == MemoryAppend(memFile, u, b)
    IN  /\ last.op # "boot"
        /\ Len(hist) < bound
        /\ Commit(o)
        /\ last' = Call("append", TextOf(u), TextOf(b), o.exc, Entry(u, b))
        /\ hist' = IF o.writes THEN hist \o Entry(u, b) ELSE hist
        /\ UNCHANGED <<procVars, skillVars, loopVars>>

\* the file is edited by hand between two calls
EditFiles ==
    StartFiles
    \cup { File(<<Tok("list")>>),
           File(<<Tok("{"), Tok("facts"), Pair(<<"a", "_", "b">>, <<>>),
                  Pair(<<"a", "_", "b">>, <<"N", "a">>), Tok("endfacts"), Tok("}")>>) }

HandEdit(f) ==
    /\ last.op # "boot"
    /\ memFile' = f
    /\ last' = Call("edit", <<>>, <<>>, "none", <<>>)
    /\ hist' = ConvOf(f)
    /\ UNCHANGED <<tmpFile, procVars, skillVars, loopVars>>

-----------------------------------------------------------------------------
(* Specifications of the Fact Store *)

Procs == {1, 2}

\* a writer's mutation: the call, the visible file it read, the text it
\* writes, the exception it ended with, and how many mutations it has begun
Job(op, old, text, exc, n) == [op |-> op, old |-> old, text |-> text, exc |-> exc, n |-> n]

ProcInit ==
    /\ pc = [p \in Procs |-> "idle"]
    /\ cur = [p \in Procs |-> Job("none", NoFile, <<>>, "none", 0)]
    /\ pend = [p \in Procs |-> <<>>]
    /\ off = [p \in Procs |-> 0]
    /\ hnd = [p \in Procs |-> "closed"]

SkillIdle ==
    /\ stateFile = NoFile
    /\ skillsDir = <<>>
    /\ skills = <<>>
    /\ rules = <<>>
    /\ lastSkill = Call("boot", <<>>, <<>>, "none", <<>>)

\* the LLM object: the chat session ("new" from _new_chat until a request
\* is answered, then "used"), and the locals of
\* llm_respond (user_for_llm, the chunks joined, printed_stream, reply)
Llm(sess, text, full, printed, reply) ==
    [sess |-> sess, text |-> text, full |-> full, printed |-> printed, reply |-> reply]

\* mic_text: where the caller is ("idle" outside mic_text, "join" at
\* t.join(timeout)), the worker threads started so far, each with its own
\* box, and what the calls returned to the loop
Mic(main, workers, out) == [main |-> main, workers |-> workers, out |-> out]

MicIdle == Mic("idle", <<>>, <<>>)

LoopIdle ==
    /\ awake = FALSE
    /\ lpc = "off"
    /\ utt = <<>>
    /\ trace = <<>>
    /\ llm = Llm("new", <<>>, <<>>, FALSE, <<>>)
    /\ heard = 0
    /\ mic = MicIdle

\* a directory that holds any of the start files, before boot
InitStore ==
    /\ memFile \in StartFiles
    /\ tmpFile = NoFile
    /\ last = Call("boot", <<>>, <<>>, "none", <<>>)
    /\ hist = <<>>
    /\ ProcInit
    /\ SkillIdle
    /\ LoopIdle

StoreCalls ==
    \/ \E k \in Keys, v \in Values : Remember(k, v)
    \/ \E q \in Queries : LegacyRemember(q)
    \/ \E k \in Keys \cup {NormalizeKey(x) : x \in Keys} : Recall(k)
    \/ \E n \in Needles : FactsLike(n)
    \/ \E u \in TurnInputs, b \in TurnInputs : AppendConversation(u, b, MaxTurns)

NextStore ==
    \/ Construct
    \/ StoreCalls

SpecStore == InitStore /\ [][NextStore]_vars

NextEdit ==
    \/ Construct
    \/ StoreCalls
    \/ \E f \in EditFiles : HandEdit(f)

SpecEdit == InitStore /\ [][NextEdit]_vars

\* The log of a running store that holds n turns, numbered in order.
NumberedTurn(i) == IF i % 2 = 1 THEN TurnU(Digits(i)) ELSE TurnB(Digits(i))
NumberedConv(n) == [i \in 1..n |-> NumberedTurn(i)]

InitCap ==
    /\ \E n \in {0, MAX_CONVERSATIONS} :
          /\ memFile = File(Dumps(Dict(TRUE, <<>>, TRUE, NumberedConv(n))))
          /\ hist = NumberedConv(n)
    /\ tmpFile = NoFile
    /\ last = Call("init", <<>>, <<>>, "none", <<>>)
    /\ ProcInit
    /\ SkillIdle
    /\ LoopIdle

\* the next turn is a user turn or a bot turn, alternately, or no turn at all
NextCap ==
    \/ \E n \in {Len(hist) + 1} :
          IF n % 2 = 1
          THEN AppendConversation(<<Digits(n)>>, <<>>, MAX_CONVERSATIONS + MaxOver)
          ELSE AppendConversation(<<>>, <<Digits(n)>>, MAX_CONVERSATIONS + MaxOver)
    \/ /\ last.op = "append" /\ last.ret # <<>>
       /\ AppendConversation(<<>>, <<>>, MAX_CONVERSATIONS + MaxOver)

SpecCap == InitCap /\ [][NextCap]_vars

-----------------------------------------------------------------------------
(* Properties of the Fact Store *)

\* the keys of the facts object of the visible file
StoredKeys ==
    { memFile.text[i].a : i \in { j \in 1..Len(memFile.text) : memFile.text[j].t = "pair" } }

\* the number of members of the facts object of the visible file named k
Entries(k) ==
    Cardinality({ i \in 1..Len(memFile.text) :
                    memFile.text[i].t = "pair" /\ memFile.text[i].a = k })

\* C1: remember(k, v) completes, a recall(k) made next returns v, and the
\* stored document holds exactly one entry for k, whatever was written before.
C1_RoundTrip ==
    last.op = "remember" =>
        /\ last.exc = "none"
        /\ MemoryRecall(memFile, last.a) = Result("none", <<last.b>>)
        /\ Entries(last.a) = 1

\* a key written earlier (another key was added after it) is written again
C1_Witness ==
    /\ last.op = "remember"
    /\ Cardinality(StoredKeys) = 2
    /\ GetFacts(Loads(memFile.text))[1].a = last.a
    /\ last.b = <<>>

\* C2: after a fact is written under any spelling of a key, by Memory.remember
\* or by the legacy 'remember:' skill, recall of the normalized key returns it.
C2_NormalizedKey ==
    (/\ last.op \in {"remember", "legacy"}
     /\ last.exc = "none"
     /\ (last.op = "legacy" => last.ret = <<Tok("stored")>>))
    => MemoryRecall(memFile, NormalizeKey(last.a)) = Result("none", <<last.b>>)

\* C4: the list returned by facts_like("") holds one pair for every stored
\* key, with the stored value, and nothing else.
C4_FactsLikeAll ==
    (last.op = "facts_like" /\ last.a = <<>> /\ last.exc = "none") =>
        /\ \A i \in 1..Len(last.ret) : last.ret[i].a \in StoredKeys
        /\ \A k \in StoredKeys :
              /\ Cardinality({ i \in 1..Len(last.ret) : last.ret[i].a = k }) = 1
              /\ \A i \in 1..Len(last.ret) :
                    last.ret[i].a = k => MemoryRecall(memFile, k).ret = <<last.ret[i].b>>

\* facts_like("") has listed a store of two facts, one with an empty value
C4_Witness ==
    /\ last.op = "facts_like" /\ last.a = <<>>
    /\ Len(last.ret) = 2
    /\ \E i \in 1..2 : last.ret[i].b = <<>>

\* the file cannot be read as a document
Unreadable(f) == ~f.exists \/ MemRead(f).exc # "none"

\* C5: a constructor step raises nothing; over an absent or unparseable file
\* it leaves an empty store, over a readable document it leaves the file as
\* it was.
C5_Construct ==
    [][last'.op = "init" =>
          /\ last'.exc = "none"
          /\ Unreadable(memFile) =>
                /\ MemRead(memFile') = [exc |-> "none", data |-> EmptyDoc]
                /\ MemoryFactsLike(memFile', <<>>) = Result("none", <<>>)
                /\ ConvOf(memFile') = <<>>
          /\ ~Unreadable(memFile) => memFile' = memFile]_vars

\* the constructor has reset a file
C5_Witness == last.op = "init" /\ last.ret = <<Tok("reset")>> /\ memFile = File(Dumps(EmptyDoc))

\* the file holds something other than a document of the store's shape
Malformed(f) == f.exists /\ (MemRead(f).exc # "none" \/ MemRead(f).data.kind # "dict")

\* C6: no Fact Store operation raises, and a read of a malformed file gives
\* what the empty document gives.
C6_MalformedIsEmpty ==
    /\ last.op \in {"recall", "facts_like", "remember", "append", "legacy"}
          => last.exc = "none"
    /\ (last.op \in {"recall", "facts_like"} /\ Malformed(memFile)) => last.ret = <<>>

\* C3: the stored log never holds more than the cap, and once the log has been
\* given more turns than the cap it holds exactly the most recent
\* MAX_CONVERSATIONS of them, in order.
C3_Cap ==
    LET conv == ConvOf(memFile)
    IN  /\ Len(conv) <= MAX_CONVERSATIONS
        /\ Len(hist) > MAX_CONVERSATIONS =>
              /\ Len(conv) = MAX_CONVERSATIONS
              /\ conv = SubSeq(hist, Len(hist) - MAX_CONVERSATIONS + 1, Len(hist))

\* two turns beyond the cap have been appended
C3_Witness ==
    /\ last.op = "append"
    /\ Len(hist) = MAX_CONVERSATIONS + 2
    /\ <<ConvOf(memFile)[MAX_CONVERSATIONS]>> = last.ret

-----------------------------------------------------------------------------
(* Writer processes: a mutation step by step (read, open, write, rename) *)

MaxOps == 4
MaxRaceOps == 2

\* the calls a writer makes: the constructor and the two mutations
WriterCalls ==
    {[op |-> "init", a |-> <<>>, b |-> <<>>]}
    \cup {[op |-> "remember", a |-> k, b |-> <<"N", "a">>] : k \in Keys}
    \cup {[op |-> "append", a |-> <<>>, b |-> <<<<"h", "i">>>>]}

CallOutcome(c) ==
    IF c.op = "init" THEN MemoryInit(memFile)
    ELSE IF c.op = "remember" THEN MemoryRemember(memFile, c.a, c.b)
    ELSE MemoryAppend(memFile, c.a, c.b)

\* the call up to _safe_write: _read and the change of the data
PBegin(p, c, bound) ==
    LET o == CallOutcome(c)
    IN  /\ pc[p] = "idle"
        /\ cur[p].n < bound
        /\ c.op # "init" => cur[p].op \notin {"none", "crashed"}
        /\ c.op = "append" => Len(ConvOf(memFile)) < MaxTurns
        /\ cur' = [cur EXCEPT ![p] = Job(c.op, memFile, o.text, o.exc, cur[p].n + 1)]
        /\ pc' = [pc EXCEPT ![p] = IF o.writes THEN "open" ELSE "idle"]
        /\ UNCHANGED <<memFile, tmpFile, last, hist, pend, off, hnd, skillVars, loopVars>>

\* tmp.write_text: open(tmp, "w")
POpen(p) ==
    LET fs == FsOpen(Fs(memFile, tmpFile), TmpPath)
    IN  /\ pc[p] = "open"
        /\ memFile' = fs.mem /\ tmpFile' = fs.tmp
        /\ hnd' = [hnd EXCEPT ![p] = TmpPath]
        /\ off' = [off EXCEPT ![p] = 0]
        /\ pend' = [pend EXCEPT ![p] = cur[p].text]
        /\ pc' = [pc EXCEPT ![p] = "write"]
        /\ UNCHANGED <<last, hist, cur, skillVars, loopVars>>

\* tmp.write_text: one write(2) of the next n tokens; the file is closed
\* after the last one
PWrite(p, n) ==
    LET fs == FsWrite(Fs(memFile, tmpFile), hnd[p], off[p], SubSeq(pend[p], 1, n))
        done == n = Len(pend[p])
    IN  /\ pc[p] = "write"
        /\ n \in 1..Len(pend[p])
        /\ n < Len(pend[p]) => off[p] = 0
        /\ memFile' = fs.mem /\ tmpFile' = fs.tmp
        /\ pend' = [pend EXCEPT ![p] = SubSeq(pend[p], n + 1, Len(pend[p]))]
        /\ off' = [off EXCEPT ![p] = IF done THEN 0 ELSE off[p] + n]
        /\ hnd' = [hnd EXCEPT ![p] = IF done THEN "closed" ELSE hnd[p]]
        /\ pc' = [pc EXCEPT ![p] = IF done THEN "replace" ELSE "write"]
        /\ UNCHANGED <<last, hist, cur, skillVars, loopVars>>

\* tmp.replace(mem_path); FileNotFoundError if tmp is not there
PReplace(p) ==
    LET fs == FsReplace(Fs(memFile, tmpFile))
    IN  /\ pc[p] = "replace"
        /\ pc' = [pc EXCEPT ![p] = "idle"]
        /\ IF tmpFile.exists
           THEN /\ memFile' = fs.mem /\ tmpFile' = fs.tmp
                /\ hnd' = [q \in Procs |->
                             IF hnd[q] = "tmp" THEN "mem"
                             ELSE IF hnd[q] = "mem" THEN "orphan" ELSE hnd[q]]
                /\ UNCHANGED cur
           ELSE /\ cur' = [cur EXCEPT ![p].exc = "FileNotFoundError"]
                /\ UNCHANGED <<memFile, tmpFile, hnd>>
        /\ UNCHANGED <<last, hist, pend, off, skillVars, loopVars>>

\* the process dies inside a mutation; its handle is closed by the system
PCrash(p) ==
    /\ pc[p] # "idle"
    /\ pc' = [pc EXCEPT ![p] = "idle"]
    /\ cur' = [cur EXCEPT ![p].op = "crashed"]
    /\ pend' = [pend EXCEPT ![p] = <<>>]
    /\ off' = [off EXCEPT ![p] = 0]
    /\ hnd' = [hnd EXCEPT ![p] = "closed"]
    /\ UNCHANGED <<memFile, tmpFile, last, hist, skillVars, loopVars>>

PStep(p, bound) ==
    \/ \E c \in WriterCalls : PBegin(p, c, bound)
    \/ POpen(p)
    \/ \E n \in 1..Len(pend[p]) : PWrite(p, n)
    \/ PReplace(p)

\* one process, which may die at any step and be started again
InitCrash ==
    /\ memFile \in {NoFile, File(Garbage),
                    File(Dumps(Dict(TRUE, <<Pair(<<"a", "_", "b">>, <<>>)>>, TRUE, <<>>)))}
    /\ tmpFile = NoFile
    /\ last = Call("boot", <<>>, <<>>, "none", <<>>)
    /\ hist = <<>>
    /\ ProcInit
    /\ SkillIdle
    /\ LoopIdle

NextCrash ==
    \/ PStep(1, MaxOps)
    \/ PCrash(1)

SpecCrash == InitCrash /\ [][NextCrash]_vars

\* two processes on the file of a store that is in use
InitRace ==
    /\ memFile = File(Dumps(EmptyDoc))
    /\ tmpFile = NoFile
    /\ last = Call("boot", <<>>, <<>>, "none", <<>>)
    /\ hist = <<>>
    /\ ProcInit
    /\ SkillIdle
    /\ LoopIdle

NextRace == \E p \in Procs : PStep(p, MaxRaceOps)

SpecRace == InitRace /\ [][NextRace]_vars

\* C7: the visible file changes only by a rename, and then to the complete
\* new document of the mutation that renames; every other step of a
\* mutation, and a crash at any of them, leaves it as it was.
C7_AtomicReplace ==
    [][memFile' # memFile =>
          \E p \in Procs : pc[p] = "replace" /\ memFile' = File(cur[p].text)]_vars

\* a process died between its write and its rename, leaving the temporary
\* file behind, and the visible file still holds a complete document
C7_Witness ==
    /\ cur[1].op = "crashed"
    /\ tmpFile.exists /\ tmpFile.text # <<>>
    /\ memFile.exists /\ ~Malformed(memFile)
    /\ memFile # tmpFile

\* C8: when both writers have finished, no call has raised and the visible
\* file holds the complete document that one of them wrote.
C8_LastReplaceWins ==
    (/\ \A p \in Procs : pc[p] = "idle" /\ cur[p].op \in {"remember", "append"}
     /\ \A p \in Procs : cur[p].n >= 1)
    => /\ \A p \in Procs : cur[p].exc = "none"
       /\ \E p \in Procs : memFile = File(cur[p].text)

-----------------------------------------------------------------------------
(* core/plugins.py: the Skill Registry;  core/admin.py: reload_skills *)

\* "name": true / false / null inside the enable-state object
Flag(name, lit) == [t |-> "flag", a |-> name, b |-> lit]
TRUE_LIT == <<"t", "r", "u", "e">>
FALSE_LIT == <<"f", "a", "l", "s", "e">>
NULL_LIT == <<"n", "u", "l", "l">>

\* json.dumps of the enable-state mapping
DumpsState(map) == <<Tok("{")>> \o map \o <<Tok("}")>>

\* json.loads of the enable-state file: kind "dict" with the mapping, kind
\* "list" for a JSON value that is no object, kind "error" where it raises
LoadsState(text) ==
    LET n == Len(text)
    IN  IF text = <<Tok("list")>> THEN [kind |-> "list", map |-> <<>>]
        ELSE IF n < 2 \/ text[1].t # "{" \/ text[n].t # "}"
                \/ \E i \in 2..(n - 1) : text[i].t # "flag"
        THEN [kind |-> "error", map |-> <<>>]
        ELSE [kind |-> "dict",
              map |-> [i \in 1..Len(DictOf(SubSeq(text, 2, n - 1))) |->
                          Flag(DictOf(SubSeq(text, 2, n - 1))[i].a,
                               DictOf(SubSeq(text, 2, n - 1))[i].b)]]

\* _read_state
ReadState(f) ==
    IF f.exists /\ LoadsState(f.text).kind # "error" THEN LoadsState(f.text)
    ELSE [kind |-> "dict", map |-> <<>>]

\* a lookup whose default is disabled, state.get(name, False)
IsEnabledDefaultOff(name, map) ==
    IF DictGet(map, name) = <<>> THEN FALSE ELSE DictGet(map, name)[1] = TRUE_LIT

\* _is_enabled, as a truth value: state.get(name, True)
IsEnabled(name, map) ==
    IF DictGet(map, name) = <<>> THEN TRUE ELSE DictGet(map, name)[1] = TRUE_LIT

\* a candidate file skills/<stem>.py: whether it imports, whether it has a
\* callable run, its NAME and its TRIGGERS
Module(stem, imports, hasRun, name, triggers) ==
    [stem |-> stem, imports |-> imports, hasRun |-> hasRun, name |-> name,
     triggers |-> triggers]

REGISTRY == <<"r", "e", "g", "i", "s", "t", "r", "y">>

\* _iter_skill_modules: the files of the directory that are candidates
RECURSIVE IterSkillModules(_)
IterSkillModules(dir) ==
    IF dir = <<>> THEN <<>>
    ELSE (IF (Head(dir).stem # <<>> /\ Head(dir).stem[1] = "_") \/ Head(dir).stem = REGISTRY
          THEN <<>> ELSE <<Head(dir)>>)
         \o IterSkillModules(Tail(dir))

\* the trigger strings re.compile rejects
Uncompilable == {<<"(">>}

\* _compile_triggers
RECURSIVE CompileTriggers(_)
CompileTriggers(triggers) ==
    IF triggers = <<>> THEN <<>>
    ELSE (IF Head(triggers) \in Uncompilable THEN <<>> ELSE <<Head(triggers)>>)
         \o CompileTriggers(Tail(triggers))

\* _load_one: <<>> for None, <<LoadedSkill>> otherwise
LoadOne(m) ==
    IF ~m.imports \/ ~m.hasRun THEN <<>>
    ELSE <<[name |-> m.name, stem |-> m.stem, patterns |-> CompileTriggers(m.triggers)]>>

\* result[sk.name] = sk on the insertion-ordered dict of loaded skills
SkillSet(result, sk) ==
    IF \E i \in 1..Len(result) : result[i].name = sk.name
    THEN [i \in 1..Len(result) |-> IF result[i].name = sk.name THEN sk ELSE result[i]]
    ELSE Append(result, sk)

\* the loop of load_skills over the candidates
RECURSIVE LoadLoop(_, _)
LoadLoop(mods, map) ==
    IF mods = <<>> THEN <<>>
    ELSE LET n == Len(mods)
             before == LoadLoop(SubSeq(mods, 1, n - 1), map)
             sk == LoadOne(mods[n])
         IN  IF sk = <<>> THEN before
             ELSE IF ~IsEnabled(sk[1].name, map) THEN before
             ELSE SkillSet(before, sk[1])

\* the candidates that load
Loadable(dir) ==
    { IterSkillModules(dir)[i] :
        i \in { j \in 1..Len(IterSkillModules(dir)) : LoadOne(IterSkillModules(dir)[j]) # <<>> } }

\* an entry of TRIGGERS that is no string (the number 42): re.compile raises
\* TypeError for it, which is no re.error
NOT_A_STRING == <<"<42>">>

\* _compile_triggers(triggers) leaves through an exception it does not catch
TriggersRaise(triggers) == \E i \in 1..Len(triggers) : triggers[i] = NOT_A_STRING

\* The exception that ends the loop of load_skills and of list_all over the
\* candidates ("none" if none does): TypeError out of _load_one at the first
\* candidate whose triggers raise, AttributeError out of state.get at the
\* first candidate that loads when the state is no mapping.
RECURSIVE LoadError(_, _)
LoadError(mods, st) ==
    IF mods = <<>> THEN "none"
    ELSE IF Head(mods).imports /\ Head(mods).hasRun /\ TriggersRaise(Head(mods).triggers)
    THEN "TypeError"
    ELSE IF LoadOne(Head(mods)) # <<>> /\ st.kind # "dict" THEN "AttributeError"
    ELSE LoadError(Tail(mods), st)

\* load_skills
LoadSkills(f, dir) ==
    LET st == ReadState(f)
    IN  IF LoadError(IterSkillModules(dir), st) # "none"
        THEN [exc |-> LoadError(IterSkillModules(dir), st), skills |-> <<>>]
        ELSE [exc |-> "none", skills |-> LoadLoop(IterSkillModules(dir), st.map)]

\* list_all: the rows (name, enabled), in candidate order
RECURSIVE ListRows(_, _)
ListRows(mods, map) ==
    IF mods = <<>> THEN <<>>
    ELSE (IF LoadOne(Head(mods)) = <<>> THEN <<>>
          ELSE <<[name |-> Head(mods).name, enabled |-> IsEnabled(Head(mods).name, map)]>>)
         \o ListRows(Tail(mods), map)

ListAll(f, dir) ==
    LET st == ReadState(f)
    IN  IF LoadError(IterSkillModules(dir), st) # "none"
        THEN [exc |-> LoadError(IterSkillModules(dir), st), rows |-> <<>>]
        ELSE [exc |-> "none", rows |-> ListRows(IterSkillModules(dir), st.map)]

\* a set_enabled that changes the mapping in memory and does not write it
SetEnabledNoWrite(f, name, enabled) ==
    IF ReadState(f).kind # "dict" THEN [exc |-> "TypeError", file |-> f]
    ELSE [exc |-> "none", file |-> f]

\* set_enabled: state[name] = bool(enabled), then _write_state
SetEnabledFile(f, name, enabled) ==
    LET st == ReadState(f)
        lit == IF enabled THEN TRUE_LIT ELSE FALSE_LIT
        map == DictSet(st.map, name, lit)
    IN  IF st.kind # "dict" THEN [exc |-> "TypeError", file |-> f]
        ELSE [exc |-> "none",
              file |-> File(DumpsState([i \in 1..Len(map) |-> Flag(map[i].a, map[i].b)]))]

\* PluginRouter.__init__: the flat rule list [(name, pattern)]
RECURSIVE RouterRules(_)
RouterRules(sks) ==
    IF sks = <<>> THEN <<>>
    ELSE [i \in 1..Len(Head(sks).patterns) |->
             [name |-> Head(sks).name, pat |-> Head(sks).patterns[i]]]
         \o RouterRules(Tail(sks))

Names(sks) == { sks[i].name : i \in 1..Len(sks) }

\* the parts of a trigger's pattern: \b is a word boundary, \\ a backslash,
\* any other character stands for itself
RECURSIVE ReParts(_)
ReParts(t) ==
    IF t = <<>> THEN <<>>
    ELSE IF Len(t) >= 2 /\ t[1] = "\\" /\ t[2] = "b"
    THEN <<WB>> \o ReParts(SubSeq(t, 3, Len(t)))
    ELSE IF Len(t) >= 2 /\ t[1] = "\\" /\ t[2] = "\\"
    THEN <<Lit(<<"\\">>)>> \o ReParts(SubSeq(t, 3, Len(t)))
    ELSE <<Lit(<<t[1]>>)>> \o ReParts(Tail(t))

\* re.compile(t, re.I) of a trigger
ReCompile(t) == Cat(ReParts(t))

\* a loop that keeps the last rule that matches
RECURSIVE RouteLoopLast(_, _)
RouteLoopLast(rs, s) ==
    IF rs = <<>> THEN <<>>
    ELSE IF Search(ReCompile(rs[Len(rs)].pat), s) THEN <<rs[Len(rs)].name>>
    ELSE RouteLoopLast(SubSeq(rs, 1, Len(rs) - 1), s)

\* the loop of PluginRouter.route: <<>> for no match, <<name>> of the first
\* rule whose pattern is found in s
RECURSIVE RouteLoop(_, _)
RouteLoop(rs, s) ==
    IF rs = <<>> THEN <<>>
    ELSE IF Search(ReCompile(Head(rs).pat), s) THEN <<Head(rs).name>>
    ELSE RouteLoop(Tail(rs), s)

\* self.skills.get(name): <<>> for None
SkillGet(sks, name) ==
    IF \E i \in 1..Len(sks) : sks[i].name = name
    THEN <<sks[CHOOSE i \in 1..Len(sks) : sks[i].name = name]>>
    ELSE <<>>

\* PluginRouter.route(text): <<>> for None, <<LoadedSkill>> otherwise
RouterRoute(rs, sks, text) ==
    LET hit == RouteLoop(rs, text)
    IN  IF hit = <<>> THEN <<>> ELSE SkillGet(sks, hit[1])

-----------------------------------------------------------------------------
(* Calls of the Skill Registry *)

HI == <<"h", "i">>
WEA == <<"w", "e", "a">>
BAD == <<"b", "a", "d">>

\* the skills directory: a skill, a private file, the registry module, a
\* skill whose NAME is not its file stem, a file that fails to import and a
\* file without a callable run
Directory ==
    << Module(HI, TRUE, TRUE, HI, <<HI, <<"(">>>>),
       Module(<<"_", "p">>, TRUE, TRUE, <<"_", "p">>, <<>>),
       Module(REGISTRY, TRUE, TRUE, REGISTRY, <<REGISTRY>>),
       Module(<<"w", "x">>, TRUE, TRUE, WEA, <<WEA, <<"r", "a", "i", "n">>>>),
       Module(BAD, FALSE, TRUE, BAD, <<BAD>>),
       Module(<<"n", "r">>, TRUE, FALSE, <<"n", "r">>, <<>>) >>

SkillNames == {HI, WEA, BAD}

StateEdits ==
    { NoFile,
      File(<<Tok("{"), Flag(HI, FALSE_LIT)>>),
      File(<<Tok("list")>>),
      File(DumpsState(<<Flag(WEA, NULL_LIT)>>)) }

\* set_enabled(name, enabled)
SetEnabled(name, enabled) ==
    LET r == SetEnabledFile(stateFile, name, enabled)
    IN  /\ stateFile' = r.file
        /\ lastSkill' = Call("set_enabled", name, IF enabled THEN TRUE_LIT ELSE FALSE_LIT,
                              r.exc, <<>>)
        /\ UNCHANGED <<skillsDir, skills, rules, memVars, procVars, loopVars>>

\* reload_skills(ctx), recorded with the names that were active before it:
\* ctx.skills = load_skills(); ctx.router = PluginRouter(ctx.skills)
ReloadSkills ==
    LET r == LoadSkills(stateFile, skillsDir)
    IN  /\ IF r.exc = "none"
           THEN skills' = r.skills /\ rules' = RouterRules(r.skills)
           ELSE UNCHANGED <<skills, rules>>
        /\ lastSkill' = Call("reload", <<>>, <<>>, r.exc,
                              [i \in 1..Len(skills) |-> Flag(skills[i].name, TRUE_LIT)])
        /\ UNCHANGED <<stateFile, skillsDir, memVars, procVars, loopVars>>

\* list_all()
ListSkills ==
    LET r == ListAll(stateFile, skillsDir)
    IN  /\ lastSkill' = Call("list_all", <<>>, <<>>, r.exc,
                              [i \in 1..Len(r.rows) |->
                                  Flag(r.rows[i].name,
                                       IF r.rows[i].enabled THEN TRUE_LIT ELSE FALSE_LIT)])
        /\ UNCHANGED <<stateFile, skillsDir, skills, rules, memVars, procVars, loopVars>>

\* the utterances given to the router
RouteTexts ==
    { <<"h", "i", " ", "w", "e", "a">>, <<"r", "A", "i", "N">>, <<"t", "h", "i", "s">>,
      <<"w", "e", " ", "a">>, <<"b", "a", "d">>, <<>> }

\* a routed skill, as a token of a call's result
SkillTok(name) == [t |-> "skill", a |-> name, b |-> <<>>]

\* ctx.router.route(text)
Route(text) ==
    LET sk == RouterRoute(rules, skills, text)
    IN  /\ lastSkill' = Call("route", text, <<>>, "none",
                              IF sk = <<>> THEN <<>> ELSE <<SkillTok(sk[1].name)>>)
        /\ UNCHANGED <<stateFile, skillsDir, skills, rules, memVars, procVars, loopVars>>

\* skills/_enabled.json is edited by hand, or deleted
EditState(f) ==
    /\ stateFile' = f
    /\ lastSkill' = Call("edit", <<>>, <<>>, "none", <<>>)
    /\ UNCHANGED <<skillsDir, skills, rules, memVars, procVars, loopVars>>

MemIdle ==
    /\ memFile = File(Dumps(EmptyDoc))
    /\ tmpFile = NoFile
    /\ last = Call("init", <<>>, <<>>, "none", <<>>)
    /\ hist = <<>>
    /\ ProcInit

\* after boot: the active set and the router were built from the directory
\* and the enable-state file
InitSkills ==
    /\ stateFile \in {NoFile, File(<<Tok("{")>>), File(DumpsState(<<Flag(HI, FALSE_LIT)>>))}
    /\ skillsDir = Directory
    /\ skills = LoadSkills(stateFile, skillsDir).skills
    /\ rules = RouterRules(skills)
    /\ lastSkill = Call("boot", <<>>, <<>>, "none", <<>>)
    /\ MemIdle
    /\ LoopIdle

NextSkills ==
    \/ \E n \in SkillNames, e \in BOOLEAN : SetEnabled(n, e)
    \/ ReloadSkills
    \/ ListSkills
    \/ \E f \in StateEdits : EditState(f)
    \/ \E u \in RouteTexts : Route(u)

SpecSkills == InitSkills /\ [][NextSkills]_vars

\* the names of the candidates that load and that the mapping does not name
Unnamed ==
    { m.name : m \in { x \in Loadable(skillsDir) :
                         DictGet(ReadState(stateFile).map, x.name) = <<>> } }

\* C9: after a reload every loadable candidate that the enable-state mapping
\* does not name is active, and list_all reports it enabled; with the file
\* absent or unparseable that is every loadable candidate.
C9_DefaultOn ==
    /\ (lastSkill.op = "reload" /\ lastSkill.exc = "none")
          => /\ Unnamed \subseteq Names(skills)
             /\ \A n \in Unnamed : \E i \in 1..Len(rules) : rules[i].name = n
    /\ (lastSkill.op = "list_all" /\ lastSkill.exc = "none")
          => \A n \in Unnamed :
                \E i \in 1..Len(lastSkill.ret) :
                    lastSkill.ret[i] = Flag(n, TRUE_LIT)
    /\ (lastSkill.op \in {"reload", "list_all"}
        /\ (~stateFile.exists \/ LoadsState(stateFile.text).kind = "error"))
          => /\ lastSkill.exc = "none"
             /\ Unnamed = { m.name : m \in Loadable(skillsDir) }

\* a reload over an unparseable enable-state file has made both skills active
C9_Witness ==
    /\ lastSkill.op = "reload"
    /\ stateFile.exists /\ LoadsState(stateFile.text).kind = "error"
    /\ Names(skills) = {HI, WEA}

\* C10: a reload made right after set_enabled(x, false) leaves x out of the
\* active set and of the rule table; a reload made right after
\* set_enabled(x, true) has x, if x is a candidate that loads, in both.
C10_DisableEnable ==
    [][(lastSkill.op = "set_enabled" /\ lastSkill.exc = "none"
        /\ lastSkill'.op = "reload") =>
          /\ lastSkill'.exc = "none"
          /\ lastSkill.b = FALSE_LIT =>
                /\ lastSkill.a \notin Names(skills')
                /\ \A i \in 1..Len(rules') : rules'[i].name # lastSkill.a
          /\ (lastSkill.b = TRUE_LIT
              /\ lastSkill.a \in { m.name : m \in Loadable(skillsDir) }) =>
                /\ lastSkill.a \in Names(skills')
                /\ \E i \in 1..Len(rules') : rules'[i].name = lastSkill.a]_vars

\* one reload has dropped a skill that was active and is now disabled, and
\* restored one that was inactive and is now enabled again
C10_Witness ==
    /\ lastSkill.op = "reload"
    /\ lastSkill.ret = <<Flag(WEA, TRUE_LIT)>>
    /\ ReadState(stateFile).map = <<Flag(HI, TRUE_LIT), Flag(WEA, FALSE_LIT)>>
    /\ Names(skills) = {HI}

\* the rules whose pattern is found in the utterance s
Matching(s) == { i \in 1..Len(rules) : Search(ReCompile(rules[i].pat), s) }

\* the place of the skill named n in the active set
SkillIndex(n) == CHOOSE k \in 1..Len(skills) : skills[k].name = n

\* the patterns of the rules of the skill named n, in table order
RECURSIVE PatternsOf(_, _)
PatternsOf(rs, n) ==
    IF rs = <<>> THEN <<>>
    ELSE (IF Head(rs).name = n THEN <<Head(rs).pat>> ELSE <<>>) \o PatternsOf(Tail(rs), n)

\* C12: route returns the skill of the first rule whose pattern is found
\* anywhere in the utterance and none if no rule matches; the rule table
\* holds, for the skills of the active set in their order, each skill's
\* compiled patterns in declared order, and nothing else.
C12_FirstMatch ==
    /\ lastSkill.op = "route" =>
          /\ lastSkill.exc = "none"
          /\ Matching(lastSkill.a) = {} => lastSkill.ret = <<>>
          /\ \A i \in Matching(lastSkill.a) :
                (\A j \in Matching(lastSkill.a) : i <= j)
                   => lastSkill.ret = <<SkillTok(rules[i].name)>>
    /\ \A i \in 1..Len(rules) : rules[i].name \in Names(skills)
    /\ \A i, j \in 1..Len(rules) :
          i < j => SkillIndex(rules[i].name) <= SkillIndex(rules[j].name)
    /\ \A k \in 1..Len(skills) : PatternsOf(rules, skills[k].name) = skills[k].patterns

\* an utterance that the patterns of two skills match went to the skill whose
\* rule comes first
C12_Witness ==
    /\ lastSkill.op = "route"
    /\ Cardinality(Matching(lastSkill.a)) = 2
    /\ lastSkill.ret = <<SkillTok(HI)>>
    /\ Names(skills) = {HI, WEA}

-----------------------------------------------------------------------------
(* Text: more str and re methods used by the code *)

StartsWith(s, p) == Len(s) >= Len(p) /\ SubSeq(s, 1, Len(p)) = p

\* s.rstrip(chars), s.lstrip(chars), s.strip(chars)
RECURSIVE RStripChars(_, _)
RStripChars(s, set) ==
    IF s # <<>> /\ s[Len(s)] \in set THEN RStripChars(SubSeq(s, 1, Len(s) - 1), set) ELSE s

RECURSIVE LStripChars(_, _)
LStripChars(s, set) ==
    IF s # <<>> /\ Head(s) \in set THEN LStripChars(Tail(s), set) ELSE s

StripChars(s, set) == RStripChars(LStripChars(s, set), set)

\* sep.join(parts)
RECURSIVE JoinWith(_, _)
JoinWith(parts, sep) ==
    IF parts = <<>> THEN <<>>
    ELSE IF Len(parts) = 1 THEN parts[1]
    ELSE parts[1] \o sep \o JoinWith(Tail(parts), sep)

SetMax(S) == CHOOSE x \in S : \A y \in S : y <= x
SetMin(S) == CHOOSE x \in S : \A y \in S : x <= y

\* the position at which the leftmost match of r in s starts, -1 if none
SearchStart(r, s) ==
    IF Search(r, s) THEN SetMin({ i \in 0..Len(s) : Ends(r, s, i) # {} }) ELSE -1

\* s.title(): a letter after a non-letter is upper-cased, any other letter
\* lower-cased
StrTitle(s) ==
    [i \in 1..Len(s) |->
        IF i = 1 \/ s[i - 1] \notin (LowerCaseLetters \cup UpperCaseLetters)
        THEN Upper1(s[i]) ELSE Lower1(s[i])]

\* the characters U+0020..U+007E in code point order
ASCII ==
    <<" ", "!", "\"", "#", "$", "%", "&", "'", "(", ")", "*", "+",
      ",", "-", ".", "/", "0", "1", "2", "3", "4", "5", "6", "7",
      "8", "9", ":", ";", "<", "=", ">", "?", "@", "A", "B", "C",
      "D", "E", "F", "G", "H", "I", "J", "K", "L", "M", "N", "O",
      "P", "Q", "R", "S", "T", "U", "V", "W", "X", "Y", "Z", "[",
      "\\", "]", "^", "_", "<U+0060>", "a", "b", "c", "d", "e", "f", "g",
      "h", "i", "j", "k", "l", "m", "n", "o", "p", "q", "r", "s",
      "t", "u", "v", "w", "x", "y", "z", "{", "|", "}", "~">>

OrdOf == [c \in { ASCII[i] : i \in 1..95 } |-> CHOOSE i \in 1..95 : ASCII[i] = c]

\* a < b for two strings
RECURSIVE StrLess(_, _)
StrLess(a, b) ==
    IF b = <<>> THEN FALSE
    ELSE IF a = <<>> THEN TRUE
    ELSE IF Head(a) = Head(b) THEN StrLess(Tail(a), Tail(b))
    ELSE OrdOf[Head(a)] < OrdOf[Head(b)]

\* sorted(pairs) for a list of (key, value) with distinct keys
RECURSIVE SortedPairs(_)
SortedPairs(pairs) ==
    IF pairs = <<>> THEN <<>>
    ELSE LET m == CHOOSE i \in 1..Len(pairs) :
                     \A j \in 1..Len(pairs) : j = i \/ StrLess(pairs[i].a, pairs[j].a)
         IN  <<pairs[m]>>
             \o SortedPairs(SubSeq(pairs, 1, m - 1) \o SubSeq(pairs, m + 1, Len(pairs)))

\* The group of a match of pre (group) post that starts at position i: the
\* offsets <<j, k>> between which the group lies.  Every quantifier of the
\* patterns is greedy: the longest pre is tried first, then the longest group.
GroupSpans(s, i, pre, grp, post) ==
    UNION { { <<j, k>> : k \in { e \in Ends(grp, s, j) : Ends(post, s, e) # {} } } :
            j \in Ends(pre, s, i) }

GroupSpan(s, i, pre, grp, post) ==
    CHOOSE p \in GroupSpans(s, i, pre, grp, post) :
        \A o \in GroupSpans(s, i, pre, grp, post) :
            o[1] < p[1] \/ (o[1] = p[1] /\ o[2] <= p[2])

-----------------------------------------------------------------------------
(* core/admin.py: handle_skill_admin;  core/plugins.py: scaffold *)

\* ^(reload|reload it|reload now|refresh|refresh it|refresh now)[.!]?$
ADMIN_RELOAD_RE ==
    Cat(<<BOL,
          Alt(<<Lit(<<"r", "e", "l", "o", "a", "d">>), Lit(<<"r", "e", "l", "o", "a", "d", " ", "i", "t">>), Lit(<<"r", "e", "l", "o", "a", "d", " ", "n", "o", "w">>),
                Lit(<<"r", "e", "f", "r", "e", "s", "h">>), Lit(<<"r", "e", "f", "r", "e", "s", "h", " ", "i", "t">>), Lit(<<"r", "e", "f", "r", "e", "s", "h", " ", "n", "o", "w">>)>>),
          Opt(Cls({".", "!"})), EOL>>)

\* ^(list skills|show skills|what skills|skills\??)[.!]?$
LIST_SKILLS_RE ==
    Cat(<<BOL,
          Alt(<<Lit(<<"l", "i", "s", "t", " ", "s", "k", "i", "l", "l", "s">>), Lit(<<"s", "h", "o", "w", " ", "s", "k", "i", "l", "l", "s">>), Lit(<<"w", "h", "a", "t", " ", "s", "k", "i", "l", "l", "s">>),
                Cat(<<Lit(<<"s", "k", "i", "l", "l", "s">>), Opt(Lit(<<"?">>))>>)>>),
          Opt(Cls({".", "!"})), EOL>>)

\* \bskills?\b[,\s:\-]+ : SKILL_CMD_RE up to its group (.*)$
SKILL_CMD_RE ==
    Cat(<<WB, Lit(<<"s", "k", "i", "l", "l">>), Opt(Lit(<<"s">>)), WB, Plus(Cls({",", " ", ":", "-"}))>>)

\* SKILL_CMD_RE.search(low): <<>> for no match, <<m.group(1)>> otherwise;
\* the separators are matched greedily and the group takes the rest
SkillCmd(low) ==
    LET i == SearchStart(SKILL_CMD_RE, low)
    IN  IF i = -1 THEN <<>>
        ELSE <<SubSeq(low, SetMax(Ends(SKILL_CMD_RE, low, i)) + 1, Len(low))>>

\* \b(it|please|now|thanks?)\b$
FILLER_RE ==
    Cat(<<WB, Alt(<<Lit(<<"i", "t">>), Lit(<<"p", "l", "e", "a", "s", "e">>), Lit(<<"n", "o", "w">>),
                    Cat(<<Lit(<<"t", "h", "a", "n", "k">>), Opt(Lit(<<"s">>))>>)>>), WB, EOL>>)

\* ^(gaffled|scaf|scafold)\b
SCAF_RE == Cat(<<BOL, Alt(<<Lit(<<"g", "a", "f", "f", "l", "e", "d">>), Lit(<<"s", "c", "a", "f">>), Lit(<<"s", "c", "a", "f", "o", "l", "d">>)>>), WB>>)

SCAFFOLD == <<"s", "c", "a", "f", "f", "o", "l", "d">>

\* the clean-up of the command text, lines 34-37
CleanCmd(group) ==
    LET c1 == StrStrip(group)
        c2 == RStripChars(c1, {".", "!", ",", "?"})
        i == SearchStart(FILLER_RE, c2)
        c3 == StrStrip(IF i = -1 THEN c2 ELSE SubSeq(c2, 1, i))
        e == Ends(SCAF_RE, c3, 0)
    IN  IF e = {} THEN c3 ELSE SCAFFOLD \o SubSeq(c3, SetMax(e) + 1, Len(c3))

\* cmd.split(" ", 1)[1].strip()
AfterFirstSpace(cmd) == StrStrip(SubSeq(cmd, FirstIndex(cmd, " ") + 1, Len(cmd)))

\* re.sub(r"[^a-zA-Z0-9_]", "_", name).lower()
SafeName(name) ==
    StrLower([i \in 1..Len(name) |-> IF name[i] \in WordChars THEN name[i] ELSE "_"])

\* the file scaffold writes: NAME = safe, TRIGGERS = [r"\\b<safe>\\b"] (the
\* template's four backslashes are two in the file), and a stub run
ScaffoldModule(safe) ==
    Module(safe, TRUE, TRUE, safe,
           << <<"\\", "\\", "b">> \o safe \o <<"\\", "\\", "b">> >>)
    @@ [desc |-> <<"Describe what ">> \o safe \o <<" does.">>]

\* a scaffold that writes the template whether or not the file exists
ScaffoldOverwrite(dir, name) ==
    IF \E i \in 1..Len(dir) : dir[i].stem = SafeName(name)
    THEN [i \in 1..Len(dir) |-> IF dir[i].stem = SafeName(name)
                                THEN ScaffoldModule(SafeName(name)) ELSE dir[i]]
    ELSE Append(dir, ScaffoldModule(SafeName(name)))

\* scaffold(name): the directory afterwards; an existing file is left alone
Scaffold(dir, name) ==
    IF \E i \in 1..Len(dir) : dir[i].stem = SafeName(name) THEN dir
    ELSE Append(dir, ScaffoldModule(SafeName(name)))

\* getattr(mod, "DESCRIPTION", f"{name} skill")
Description(m) == IF "desc" \in DOMAIN m THEN m.desc ELSE m.name \o <<" skill">>

\* the characters U+2022 and U+2014
BULLET == "<U+2022>"
EM_DASH == "<U+2014>"

\* the rows of the list reply, one for each candidate that loads
RECURSIVE RowTexts(_, _)
RowTexts(mods, map) ==
    IF mods = <<>> THEN <<>>
    ELSE (IF LoadOne(Head(mods)) = <<>> THEN <<>>
          ELSE << <<BULLET, " ">> \o Head(mods).name
                  \o (IF IsEnabled(Head(mods).name, map) THEN <<" [on] ", EM_DASH, " ">>
                      ELSE <<" [off] ", EM_DASH, " ">>)
                  \o Description(Head(mods)) >>)
         \o RowTexts(Tail(mods), map)

\* "Installed skills:\n" + ("\n".join(rows) if rows else "(none)")
ListReply(f, dir) ==
    LET rows == RowTexts(IterSkillModules(dir), ReadState(f).map)
    IN  <<"Installed skills:\n">>
        \o (IF rows = <<>> THEN <<"(none)">> ELSE JoinWith(rows, <<"\n">>))

\* the message reload_skills returns
ReloadReply(sks) ==
    <<"Reloaded skills: ">>
    \o (IF sks = <<>> THEN <<"(none)">>
        ELSE JoinWith([i \in 1..Len(sks) |-> sks[i].name], <<", ">>))

\* the message set_enabled returns
SetEnabledReply(name, enabled) ==
    <<IF enabled THEN "Enabled" ELSE "Disabled">> \o <<" skill '">> \o name
    \o <<"'. Say 'skill reload' to apply.">>

USAGE ==
    <<"Usage: skill list | skill reload | skill enable <name> | skill disable <name> | skill scaffold <name>">>

\* What a handler did before its say(): whether it takes the utterance, the
\* exception it raised, the text it says (<<>> for none, <<text>>), and the
\* enable-state file, the directory, ctx.skills and ctx.router.rules after.
Handled(handled, exc, reply, sf, dir, sks, rls) ==
    [handled |-> handled, exc |-> exc, reply |-> reply, stateFile |-> sf,
     skillsDir |-> dir, skills |-> sks, rules |-> rls]

\* say(ctx, reload_skills(ctx))
AdminReload(sf, dir, sks, rls) ==
    LET r == LoadSkills(sf, dir)
    IN  IF r.exc # "none" THEN Handled(TRUE, r.exc, <<>>, sf, dir, sks, rls)
        ELSE Handled(TRUE, "none", <<ReloadReply(r.skills)>>, sf, dir, r.skills,
                     RouterRules(r.skills))

\* say(ctx, "Installed skills:..." over list_all())
AdminList(sf, dir, sks, rls) ==
    IF ListAll(sf, dir).exc # "none"
    THEN Handled(TRUE, ListAll(sf, dir).exc, <<>>, sf, dir, sks, rls)
    ELSE Handled(TRUE, "none", <<ListReply(sf, dir)>>, sf, dir, sks, rls)

\* an enable or disable command that also rebuilds the active set
AdminSetEnabledAndReload(sf, dir, sks, rls, name, enabled) ==
    LET r == SetEnabledFile(sf, name, enabled)
        l == LoadSkills(r.file, dir)
    IN  IF r.exc # "none" THEN Handled(TRUE, r.exc, <<>>, sf, dir, sks, rls)
        ELSE Handled(TRUE, "none", <<SetEnabledReply(name, enabled)>>, r.file, dir,
                     l.skills, RouterRules(l.skills))

\* say(ctx, set_enabled(name, enabled))
AdminSetEnabled(sf, dir, sks, rls, name, enabled) ==
    LET r == SetEnabledFile(sf, name, enabled)
    IN  IF r.exc # "none" THEN Handled(TRUE, r.exc, <<>>, sf, dir, sks, rls)
        ELSE Handled(TRUE, "none", <<SetEnabledReply(name, enabled)>>, r.file, dir,
                     sks, rls)

\* the scaffold command, lines 54-62
AdminScaffold(sf, dir, sks, rls, cmd) ==
    IF AfterFirstSpace(cmd) = <<>>
    THEN Handled(TRUE, "none", << <<"Usage: skill scaffold <name>">> >>, sf, dir, sks, rls)
    ELSE Handled(TRUE, "none",
                 << <<"Created ">> \o SafeName(AfterFirstSpace(cmd))
                    \o <<".py. Edit it, then say 'skill reload'.">> >>,
                 sf, Scaffold(dir, AfterFirstSpace(cmd)), sks, rls)

\* a handler that takes no utterance
HandleSkillAdminPassing(low, sf, dir, sks, rls) ==
    Handled(FALSE, "none", <<>>, sf, dir, sks, rls)

\* handle_skill_admin(ctx, low) up to its say()
HandleSkillAdmin(low, sf, dir, sks, rls) ==
    LET m == SkillCmd(low)
        cmd == CleanCmd(m[1])
    IN  IF FullMatch(ADMIN_RELOAD_RE, low) THEN AdminReload(sf, dir, sks, rls)
        ELSE IF FullMatch(LIST_SKILLS_RE, low) THEN AdminList(sf, dir, sks, rls)
        ELSE IF m = <<>> THEN Handled(FALSE, "none", <<>>, sf, dir, sks, rls)
        ELSE IF cmd = <<"l", "i", "s", "t">> THEN AdminList(sf, dir, sks, rls)
        ELSE IF cmd = <<"r", "e", "l", "o", "a", "d">> THEN AdminReload(sf, dir, sks, rls)
        ELSE IF StartsWith(cmd, <<"e", "n", "a", "b", "l", "e", " ">>)
        THEN AdminSetEnabled(sf, dir, sks, rls, AfterFirstSpace(cmd), TRUE)
        ELSE IF StartsWith(cmd, <<"d", "i", "s", "a", "b", "l", "e", " ">>)
        THEN AdminSetEnabled(sf, dir, sks, rls, AfterFirstSpace(cmd), FALSE)
        ELSE IF StartsWith(cmd, <<"s", "c", "a", "f", "f", "o", "l", "d", " ">>) THEN AdminScaffold(sf, dir, sks, rls, cmd)
        ELSE Handled(TRUE, "none", <<USAGE>>, sf, dir, sks, rls)

-----------------------------------------------------------------------------
(* core/admin.py: handle_memory_admin *)

\* ^(list memory|show memory|dump memory|memory list)[.!]?$
MEM_LIST_RE ==
    Cat(<<BOL,
          Alt(<<Lit(<<"l", "i", "s", "t", " ", "m", "e", "m", "o", "r", "y">>), Lit(<<"s", "h", "o", "w", " ", "m", "e", "m", "o", "r", "y">>), Lit(<<"d", "u", "m", "p", " ", "m", "e", "m", "o", "r", "y">>),
                Lit(<<"m", "e", "m", "o", "r", "y", " ", "l", "i", "s", "t">>)>>),
          Opt(Cls({".", "!"})), EOL>>)

\* [a-z0-9_ \-]{1,40}
KEY_GROUP == Rep(Cls(LowerCaseLetters \cup DecimalDigits \cup {"_", " ", "-"}), 1, 40)

\* ^memory get\s+([a-z0-9_ \-]{1,40})[.!]?$ : before and after the group
MEM_GET_PRE == Cat(<<BOL, Lit(<<"m", "e", "m", "o", "r", "y", " ", "g", "e", "t">>), Plus(WS)>>)
MEM_GET_POST == Cat(<<Opt(Cls({".", "!"})), EOL>>)

\* ^memory set\s+([a-z0-9_ \-]{1,40})\s*=\s*(.+)$ : around the first group,
\* and around the second
MEM_SET_PRE == Cat(<<BOL, Lit(<<"m", "e", "m", "o", "r", "y", " ", "s", "e", "t">>), Plus(WS)>>)
MEM_SET_POST == Cat(<<Star(WS), Lit(<<"=">>), Star(WS), Plus(AnyChar), EOL>>)
MEM_SET_MID == Cat(<<Star(WS), Lit(<<"=">>), Star(WS)>>)

\* rows[:50]
MEM_LIST_ROWS == 50

\* key.replace('_', ' ').title()
KeyTitle(key) == StrTitle(StrReplace(key, "_", " "))

\* val is truthy: neither None nor ""
Truthy(opt) == opt # <<>> /\ opt[1] # <<>>

EMPTY_MEMORY ==
    <<"Your memory is empty. Try adding some:\n",
      "  remember: user_name = Benjamin\n",
      "  remember: favorite_color = navy\n",
      "  remember: weather_default = Marble Falls, TX, US">>

\* What a handler of the Fact Store did before its say(): whether it takes
\* the utterance, the exception it raised, the text it says (<<>> for none)
\* and the store's files after.
MemHandled(handled, exc, reply, fs) ==
    [handled |-> handled, exc |-> exc, reply |-> reply, fs |-> fs]

\* the list command, lines 69-79
MemAdminList(fs) ==
    LET r == MemoryFactsLike(fs.mem, <<>>)
        rows == [i \in 1..Len(r.ret) |->
                    <<BULLET, " ">> \o KeyTitle(SortedPairs(r.ret)[i].a) \o <<":", " ">>
                    \o SortedPairs(r.ret)[i].b]
        shown == SubSeq(rows, 1, IF Len(rows) < MEM_LIST_ROWS THEN Len(rows) ELSE MEM_LIST_ROWS)
    IN  IF r.exc # "none" THEN MemHandled(TRUE, r.exc, <<>>, fs)
        ELSE IF r.ret = <<>> THEN MemHandled(TRUE, "none", <<EMPTY_MEMORY>>, fs)
        ELSE MemHandled(TRUE, "none",
                        << <<"Memory facts:\n">> \o JoinWith(shown, <<"\n">>) >>, fs)

FAVORITE_ == <<"f", "a", "v", "o", "r", "i", "t", "e", "_">>

\* val = mem.recall(key) or mem.recall(f"favorite_{key}"): the exception
\* and the value (<<>> for None)
RecallOrFavorite(f, key) ==
    LET r1 == MemoryRecall(f, key)
        r2 == MemoryRecall(f, FAVORITE_ \o key)
    IN  IF r1.exc # "none" \/ Truthy(r1.ret) THEN r1 ELSE r2

\* the get command, lines 81-86
MemAdminGet(fs, low) ==
    LET span == GroupSpan(low, 0, MEM_GET_PRE, KEY_GROUP, MEM_GET_POST)
        key == NormalizeKey(SubSeq(low, span[1] + 1, span[2]))
        r == RecallOrFavorite(fs.mem, key)
    IN  IF r.exc # "none" THEN MemHandled(TRUE, r.exc, <<>>, fs)
        ELSE IF Truthy(r.ret)
        THEN MemHandled(TRUE, "none", << KeyTitle(key) \o <<":", " ">> \o r.ret[1] >>, fs)
        ELSE MemHandled(TRUE, "none",
                        << <<"No value saved for ">> \o KeyTitle(key) \o <<".">> >>, fs)

\* the set command, lines 88-94
MemAdminSet(fs, low) ==
    LET span == GroupSpan(low, 0, MEM_SET_PRE, KEY_GROUP, MEM_SET_POST)
        key == NormalizeKey(SubSeq(low, span[1] + 1, span[2]))
        vspan == GroupSpan(low, span[2], MEM_SET_MID, Plus(AnyChar), EOL)
        val == StrStrip(SubSeq(low, vspan[1] + 1, vspan[2]))
        o == MemoryRemember(fs.mem, key, val)
    IN  IF o.exc # "none" THEN MemHandled(TRUE, o.exc, <<>>, fs)
        ELSE MemHandled(TRUE, "none",
                        << <<"Saved ">> \o KeyTitle(key) \o <<":", " ">> \o val >>,
                        SafeWrite(fs, o.text))

\* handle_memory_admin(ctx, low) up to its say()
HandleMemoryAdmin(low, fs) ==
    IF FullMatch(MEM_LIST_RE, low) THEN MemAdminList(fs)
    ELSE IF GroupSpans(low, 0, MEM_GET_PRE, KEY_GROUP, MEM_GET_POST) # {}
    THEN MemAdminGet(fs, low)
    ELSE IF GroupSpans(low, 0, MEM_SET_PRE, KEY_GROUP, MEM_SET_POST) # {}
    THEN MemAdminSet(fs, low)
    ELSE MemHandled(FALSE, "none", <<>>, fs)

-----------------------------------------------------------------------------
(* core/memory_bridge.py: memory_answer *)

\* \bwhat(?:'s| is)\s+my\s+
WHAT_IS_MY ==
    <<WB, Lit(<<"w", "h", "a", "t">>), Alt(<<Lit(<<"'", "s">>), Lit(<<" ", "i", "s">>)>>), Plus(WS), Lit(<<"m", "y">>), Plus(WS)>>

\* one entry of QMAP: the pattern, the key, and the template around {v}
Question(rx, key, before, after) ==
    [rx |-> rx, key |-> key, before |-> before, after |-> after]

QMAP ==
    << Question(Cat(WHAT_IS_MY \o <<Lit(<<"n", "a", "m", "e">>), WB>>), <<"u", "s", "e", "r", "_", "n", "a", "m", "e">>,
                <<"Your name is ">>, <<".">>),
       Question(Cat(<<WB, Lit(<<"w", "h", "o">>), Plus(WS), Lit(<<"a", "m">>), Plus(WS), Lit(<<"i">>), WB>>),
                <<"u", "s", "e", "r", "_", "n", "a", "m", "e">>, <<"You are ">>, <<".">>),
       Question(Cat(<<WB, Lit(<<"w", "h", "e", "r", "e">>), Plus(WS),
                      Alt(<<Cat(<<Lit(<<"d", "o">>), Plus(WS), Lit(<<"i">>), Plus(WS), Lit(<<"l", "i", "v", "e">>)>>),
                            Cat(<<Lit(<<"i", "s">>), Plus(WS), Lit(<<"m", "y">>), Plus(WS), Lit(<<"h", "o", "m", "e">>)>>)>>),
                      WB>>),
                <<"h", "o", "m", "e", "_", "c", "i", "t", "y">>, <<"You live in ">>, <<".">>),
       Question(Cat(WHAT_IS_MY \o <<Lit(<<"r", "o", "l", "e">>), WB>>), <<"r", "o", "l", "e">>,
                <<"Your role is ">>, <<".">>),
       Question(Cat(WHAT_IS_MY \o <<Lit(<<"f", "a", "v", "o", "r", "i", "t", "e">>), Plus(WS), Lit(<<"c", "o", "l", "o", "r">>), WB>>),
                <<"f", "a", "v", "o", "r", "i", "t", "e", "_", "c", "o", "l", "o", "r">>, <<"Your favorite color is ">>, <<".">>),
       Question(Cat(WHAT_IS_MY \o <<Lit(<<"c", "o", "f", "f", "e", "e">>), Plus(WS), Lit(<<"o", "r", "d", "e", "r">>), WB>>),
                <<"c", "o", "f", "f", "e", "e", "_", "o", "r", "d", "e", "r">>, <<"Your coffee order is ">>, <<".">>),
       Question(Cat(WHAT_IS_MY \o <<Lit(<<"t", "i", "m", "e", "z", "o", "n", "e">>), WB>>), <<"t", "i", "m", "e", "z", "o", "n", "e">>,
                <<"Your timezone is ">>, <<".">>) >>

\* \bwhat(?:'s| is)\s+my\s+([a-z][a-z _-]{1,40})\??$ : the group and what
\* follows it
GENERIC_GROUP ==
    Cat(<<Cls(LowerCaseLetters), Rep(Cls(LowerCaseLetters \cup {" ", "_", "-"}), 1, 40)>>)
GENERIC_POST == Cat(<<Opt(Lit(<<"?">>)), EOL>>)

\* f"I don't have your {key.replace('_',' ')} yet."
DontHave(key) == <<"I don't have your ">> \o StrReplace(key, "_", " ") \o <<" yet.">>

\* A helper's result: the exception and the answer (<<>> for None)
Answer(exc, ans) == [exc |-> exc, ans |-> ans]

\* a search of QMAP that keeps the last entry whose pattern is found in s
RECURSIVE LastQuestion(_, _)
LastQuestion(s, n) ==
    IF n > Len(QMAP) THEN 0
    ELSE IF LastQuestion(s, n + 1) # 0 THEN LastQuestion(s, n + 1)
    ELSE IF Search(QMAP[n].rx, s) THEN n
    ELSE 0

\* the first entry of QMAP, from entry n on, whose pattern is found in s
RECURSIVE FirstQuestion(_, _)
FirstQuestion(s, n) ==
    IF n > Len(QMAP) THEN 0
    ELSE IF Search(QMAP[n].rx, s) THEN n
    ELSE FirstQuestion(s, n + 1)

\* the generic form, lines 28-34
GenericAnswer(f, s) ==
    LET starts == { i \in 0..Len(s) :
                      GroupSpans(s, i, Cat(WHAT_IS_MY), GENERIC_GROUP, GENERIC_POST) # {} }
        span == GroupSpan(s, SetMin(starts), Cat(WHAT_IS_MY), GENERIC_GROUP, GENERIC_POST)
        key == NormalizeKey(SubSeq(s, span[1] + 1, span[2]))
        r == RecallOrFavorite(f, key)
    IN  IF starts = {} THEN Answer("none", <<>>)
        ELSE IF r.exc # "none" THEN Answer(r.exc, <<>>)
        ELSE IF Truthy(r.ret)
        THEN Answer("none", << <<"Your ">> \o StrReplace(key, "_", " ") \o <<" is ">>
                               \o r.ret[1] \o <<".">> >>)
        ELSE Answer("none", <<DontHave(key)>>)

\* a memory_answer that never finds the fact of a fixed question
MemoryAnswerUnfilled(f, text) ==
    LET s == StrStrip(StrLower(text))
        n == FirstQuestion(s, 1)
    IN  IF n = 0 THEN GenericAnswer(f, s)
        ELSE Answer("none", <<DontHave(QMAP[n].key)>>)

\* memory_answer(mem, text)
MemoryAnswer(f, text) ==
    LET s == StrStrip(StrLower(text))
        n == FirstQuestion(s, 1)
        r == MemoryRecall(f, QMAP[n].key)
    IN  IF n = 0 THEN GenericAnswer(f, s)
        ELSE IF r.exc # "none" THEN Answer(r.exc, <<>>)
        ELSE IF Truthy(r.ret)
        THEN Answer("none", <<QMAP[n].before \o r.ret[1] \o QMAP[n].after>>)
        ELSE Answer("none", <<DontHave(QMAP[n].key)>>)

-----------------------------------------------------------------------------
(* core/router.py: the legacy rules;  skills/registry.py: run *)

Rule(name, rx) == [name |-> name, rx |-> rx]

RULES ==
    << Rule(<<"w", "e", "a", "t", "h", "e", "r">>,
            Cat(<<WB, Alt(<<Lit(<<"w", "e", "a", "t", "h", "e", "r">>), Lit(<<"f", "o", "r", "e", "c", "a", "s", "t">>),
                            Cat(<<Lit(<<"t", "e", "m", "p">>), Opt(Lit(<<"e", "r", "a", "t", "u", "r", "e">>))>>), Lit(<<"r", "a", "i", "n">>),
                            Lit(<<"w", "i", "n", "d">>), Lit(<<"s", "n", "o", "w">>), Lit(<<"h", "u", "m", "i", "d", "i", "t", "y">>), Lit(<<"h", "u", "m", "i", "d">>)>>),
                  WB>>)),
       Rule(<<"n", "e", "w", "s">>,
            Cat(<<WB, Alt(<<Lit(<<"n", "e", "w", "s">>), Cat(<<Lit(<<"h", "e", "a", "d", "l", "i", "n", "e">>), Opt(Cls({"s"}))>>),
                            Cat(<<Lit(<<"t", "o", "p", " ", "s", "t", "o", "r">>), Alt(<<Lit(<<"y">>), Lit(<<"i", "e", "s">>)>>)>>),
                            Lit(<<"b", "r", "e", "a", "k", "i", "n", "g">>)>>),
                  WB>>)),
       Rule(<<"s", "e", "a", "r", "c", "h">>,
            Cat(<<WB, Alt(<<Lit(<<"s", "e", "a", "r", "c", "h">>), Cat(<<Lit(<<"l", "o", "o", "k">>), Star(WS), Lit(<<"u", "p">>)>>),
                            Lit(<<"l", "o", "o", "k", "u", "p">>), Lit(<<"f", "i", "n", "d">>), Lit(<<"q", "u", "e", "r", "y">>)>>),
                  WB>>)),
       Rule(REMEMBER, Cat(<<BOL, Star(WS), Lit(REMEMBER), Star(WS), Lit(<<":">>)>>)) >>

\* route(text) of core/router.py: <<>> for None, <<name>> of the first rule
\* found in the text
RECURSIVE LegacyLoop(_, _)
LegacyLoop(rs, s) ==
    IF rs = <<>> THEN <<>>
    ELSE IF Search(Head(rs).rx, s) THEN <<Head(rs).name>>
    ELSE LegacyLoop(Tail(rs), s)

LegacyRoute(text) == LegacyLoop(RULES, text)

\* the names of _REGISTRY
REGISTRY_NAMES == {<<"w", "e", "a", "t", "h", "e", "r">>, <<"n", "e", "w", "s">>, <<"s", "e", "a", "r", "c", "h">>}

\* U+2019
APOSTROPHE == "<U+2019>"

\* registry.run("remember", query, context): the exception, the text
\* returned and the store's files after
RunRemember(fs, query) ==
    LET r == RegistryRemember(query)
        o == MemoryRemember(fs.mem, r.key, r.val)
    IN  IF FirstIndex(query, ":") = 0
        THEN MemHandled(TRUE, "none",
                        << <<"Usage: remember: key = value  (or)  remember: some note">> >>, fs)
        ELSE IF ~r.stores
        THEN MemHandled(TRUE, "none",
                        << <<"What should I store for that key? Try: remember: favorite_color = navy">> >>,
                        fs)
        ELSE IF o.exc # "none" THEN MemHandled(TRUE, o.exc, <<>>, fs)
        ELSE MemHandled(TRUE, "none",
                        << <<"Got it. I", APOSTROPHE, "ll remember ">> \o r.key \o <<":", " ">>
                           \o (IF r.val = <<>> THEN <<"(empty)">> ELSE r.val) \o <<".">> >>,
                        SafeWrite(fs, o.text))

-----------------------------------------------------------------------------
(* core/memory_bridge.py: relevant_facts, format_fact_context *)

PREFERRED_FACT_KEYS ==
    <<<<"u", "s", "e", "r", "_", "n", "a", "m", "e">>, <<"r", "o", "l", "e">>, <<"h", "o", "m", "e", "_", "c", "i", "t", "y">>, <<"h", "o", "m", "e", "_", "c", "o", "u", "n", "t", "r", "y">>, <<"w", "e", "a", "t", "h", "e", "r", "_", "d", "e", "f", "a", "u", "l", "t">>,
      <<"u", "n", "i", "t", "s">>, <<"f", "a", "v", "o", "r", "i", "t", "e", "_", "c", "o", "l", "o", "r">>, <<"c", "o", "f", "f", "e", "e", "_", "o", "r", "d", "e", "r">>, <<"t", "i", "m", "e", "z", "o", "n", "e">>>>

\* s.split(c): the pieces between the occurrences of c, empty ones included
RECURSIVE SplitOn(_, _)
SplitOn(s, c) ==
    IF FirstIndex(s, c) = 0 THEN <<s>>
    ELSE <<SubSeq(s, 1, FirstIndex(s, c) - 1)>>
         \o SplitOn(SubSeq(s, FirstIndex(s, c) + 1, Len(s)), c)

\* any(w in s for w in k.lower().split("_"))
KeyWordIn(k, s) ==
    \E i \in 1..Len(SplitOn(StrLower(k), "_")) : StrIn(SplitOn(StrLower(k), "_")[i], s)

\* the facts whose key has a word that occurs in s, in dict order
RECURSIVE PickByWords(_, _)
PickByWords(facts, s) ==
    IF facts = <<>> THEN <<>>
    ELSE (IF KeyWordIn(Head(facts).a, s) THEN <<Head(facts)>> ELSE <<>>)
         \o PickByWords(Tail(facts), s)

\* the preferred keys that have a truthy value, in priority order
RECURSIVE PickPreferred(_, _)
PickPreferred(f, keys) ==
    IF keys = <<>> THEN <<>>
    ELSE (IF Truthy(MemoryRecall(f, Head(keys)).ret)
          THEN <<Pair(Head(keys), MemoryRecall(f, Head(keys)).ret[1])>> ELSE <<>>)
         \o PickPreferred(f, Tail(keys))

\* the loop of lines 60-67: a key is taken once, and the loop is left when
\* out has reached the limit after an append
RECURSIVE Clamp(_, _, _)
Clamp(picks, out, limit) ==
    IF picks = <<>> THEN out
    ELSE IF \E i \in 1..Len(out) : out[i].a = Head(picks).a
    THEN Clamp(Tail(picks), out, limit)
    ELSE IF Len(out) + 1 >= limit THEN Append(out, Head(picks))
    ELSE Clamp(Tail(picks), Append(out, Head(picks)), limit)

\* relevant_facts(mem, text, limit): the exception and the pairs
RelevantFacts(f, text, limit) ==
    LET all == MemoryFactsLike(f, <<>>)
        picks == PickByWords(all.ret, StrLower(text))
    IN  IF all.exc # "none" THEN Result(all.exc, <<>>)
        ELSE IF all.ret = <<>> THEN Result("none", <<>>)
        ELSE IF picks # <<>> THEN Result("none", Clamp(picks, <<>>, limit))
        ELSE Result("none", Clamp(PickPreferred(f, PREFERRED_FACT_KEYS), <<>>, limit))

\* format_fact_context(facts)
FormatFactContext(facts) ==
    IF facts = <<>> THEN <<>>
    ELSE <<"Known user facts:\n">>
         \o JoinWith([i \in 1..Len(facts) |->
                         <<"-", " ">> \o KeyTitle(facts[i].a) \o <<":", " ">> \o facts[i].b],
                     <<"\n">>)

\* limit=6 in llm_respond
FACT_LIMIT == 6

\* user_for_llm, lines 7-9: the exception and the text
UserForLlm(f, user) ==
    LET r == RelevantFacts(f, user, FACT_LIMIT)
        preface == FormatFactContext(r.ret)
    IN  IF r.exc # "none" THEN Answer(r.exc, <<>>)
        ELSE IF preface = <<>> THEN Answer("none", <<user>>)
        ELSE Answer("none", <<preface \o <<"\n\nUser: ">> \o user>>)

-----------------------------------------------------------------------------
(* core/context.py: say *)

\* something done for the current utterance: a stage entered, a skill run,
\* a backend request, a text printed or spoken or logged, an exception
Ev(t, a) == [t |-> t, a |-> a, b |-> <<>>]

\* What say() or a stage did: the exception that left it, the events, the
\* store's files after, and the turns written to the log.
Done(exc, events, fs, turns) == [exc |-> exc, events |-> events, fs |-> fs, turns |-> turns]

\* the speak call and its handler: speak raises when the voice fails
Speak(text, voiceOk) ==
    IF voiceOk THEN <<Ev("speak", text)>>
    ELSE <<Ev("speak_raised", text), Ev("print_tts_error", <<>>)>>

\* ctx.mem.append_conversation(user=user, bot=bot) after the events so far
LogTurn(events, fs, user, bot) ==
    LET o == MemoryAppend(fs.mem, user, bot)
    IN  IF o.exc # "none" THEN Done(o.exc, events, fs, <<>>)
        ELSE IF ~o.writes THEN Done("none", events, fs, <<>>)
        ELSE Done("none", events \o <<Ev("append", TextOf(user) \o TextOf(bot))>>,
                  SafeWrite(fs, o.text), Entry(user, bot))

\* a say without the try/except around speak
SayUncaught(fs, text, voiceOk) ==
    IF voiceOk THEN LogTurn(<<Ev("print", text), Ev("speak", text)>>, fs, <<>>, <<text>>)
    ELSE Done("Exception", <<Ev("print", text), Ev("speak_raised", text)>>, fs, <<>>)

\* say(ctx, text)
Say(fs, text, voiceOk) ==
    LogTurn(<<Ev("print", text)>> \o Speak(text, voiceOk), fs, <<>>, <<text>>)

-----------------------------------------------------------------------------
(* core/wake.py: WakeWord;  core/runtime.py: run_loop, lines 104-143 *)

\* os.getenv("WAKE_WORD", "orion")
WAKE == <<"o", "r", "i", "o", "n">>

\* r"\b" + re.escape(self.wake.lower()) + r"\b"
WAKE_RX == Cat(<<WB, Lit(WAKE), WB>>)

\* the default sleep terms
SLEEP_TERMS ==
    <<<<"w", "a", "k", "e", "_", "c", "l", "o", "s", "e">>, <<"s", "l", "e", "e", "p">>, <<"g", "o", " ", "t", "o", " ", "s", "l", "e", "e", "p">>, <<"g", "o", "o", "d", "n", "i", "g", "h", "t">>, <<"o", "r", "i", "o", "n", " ", "s", "l", "e", "e", "p">>>>

\* the characters strip_wake strips: " ,.:;!?-", a tab, and U+00E2, U+20AC,
\* U+201D
WAKE_STRIP ==
    {" ", ",", ".", ":", ";", "!", "?", "-", "\t", "<U+00E2>", "<U+20AC>", "<U+201D>"}

\* heard_wake(text)
HeardWake(text) == Search(WAKE_RX, text)

\* strip_wake(text): the first occurrence of the wake word removed
StripWake(text) ==
    LET i == SearchStart(WAKE_RX, text)
    IN  IF i = -1 THEN StripChars(text, WAKE_STRIP)
        ELSE StripChars(SubSeq(text, 1, i) \o SubSeq(text, i + Len(WAKE) + 1, Len(text)),
                        WAKE_STRIP)

\* heard_sleep(text)
HeardSleep(text) ==
    \E i \in 1..Len(SLEEP_TERMS) : Search(Cat(<<WB, Lit(SLEEP_TERMS[i]), WB>>), text)

\* ^\s*<wake>[\s,:\-]+\s*
WAKE_PREFIX_RE ==
    Cat(<<BOL, Star(WS), Lit(WAKE), Plus(Cls({" ", ",", ":", "-"})), Star(WS)>>)

\* lines 140-142: user, the utterance without a leading wake word
UserOf(raw) ==
    LET e == Ends(WAKE_PREFIX_RE, raw, 0)
    IN  IF ~StartsWith(StrLower(raw), StrLower(WAKE)) THEN raw
        ELSE IF e = {} THEN StrStrip(raw)
        ELSE StrStrip(SubSeq(raw, SetMax(e) + 1, Len(raw)))

\* What the head of the loop decides for an utterance: the awake flag
\* after, whether the loop is left, the text said at once (<<>> for none),
\* and the text handed to the stages (<<>> for none).
Decision(wake, leave, says, user) == [awake |-> wake, leave |-> leave, says |-> says, user |-> user]

LISTENING == <<"I'm listening.">>
GOING_TO_SLEEP == <<"Going to sleep.">>

\* a loop head without the wake logic of lines 123-132: what is heard while
\* asleep is treated as if the assistant were awake
LoopHeadNeverAsleep(raw, wake) ==
    LET norm == StrStrip(StrLower(raw))
    IN  IF raw = <<>> THEN Decision(wake, FALSE, <<>>, <<>>)
        ELSE IF norm \in {<<"c", "l", "e", "a", "r">>, <<"c", "l", "e", "a", "r", ".">>} THEN Decision(wake, FALSE, <<>>, <<>>)
        ELSE IF norm = <<"c", "l", "o", "s", "e", ".">> THEN Decision(wake, TRUE, <<>>, <<>>)
        ELSE IF HeardSleep(norm) THEN Decision(FALSE, FALSE, <<GOING_TO_SLEEP>>, <<>>)
        ELSE Decision(TRUE, FALSE, <<>>, <<UserOf(raw)>>)

\* lines 111-143 for the text raw
LoopHead(raw, wake) ==
    LET norm == StrStrip(StrLower(raw))
    IN  IF raw = <<>> THEN Decision(wake, FALSE, <<>>, <<>>)
        ELSE IF norm \in {<<"c", "l", "e", "a", "r">>, <<"c", "l", "e", "a", "r", ".">>} THEN Decision(wake, FALSE, <<>>, <<>>)
        ELSE IF norm = <<"c", "l", "o", "s", "e", ".">> THEN Decision(wake, TRUE, <<>>, <<>>)
        ELSE IF ~wake
        THEN IF ~HeardWake(norm) THEN Decision(FALSE, FALSE, <<>>, <<>>)
             ELSE IF StripWake(raw) = <<>> THEN Decision(TRUE, FALSE, <<LISTENING>>, <<>>)
             ELSE Decision(TRUE, FALSE, <<>>, <<UserOf(StripWake(raw))>>)
        ELSE IF HeardSleep(norm) THEN Decision(FALSE, FALSE, <<GOING_TO_SLEEP>>, <<>>)
        ELSE Decision(TRUE, FALSE, <<>>, <<UserOf(raw)>>)

-----------------------------------------------------------------------------
(* core/runtime.py: run_loop, step by step;  core/llm_path.py: llm_respond *)

MaxHeard == 2

\* the stage entered, as an event of the utterance
Stage(name) == Ev("stage", <<name>>)

\* what sk.run returns: the stub's greeting
RunResult(sk) == <<"Hello from ">> \o sk.stem \o <<"!">>

\* what a skill of the static registry returns
LegacyResult(name) == <<"result of ">> \o name

\* "Sorry, I couldn't generate a response just now. Please try again."
APOLOGY == <<"Sorry, I couldn't generate a response just now. Please try again.">>

\* a loop whose exceptions leave run_loop without passing a finally clause
AdvanceWithoutFinally(before, d, next) ==
    /\ memFile' = d.fs.mem
    /\ tmpFile' = d.fs.tmp
    /\ hist' = hist \o d.turns
    /\ trace' = before \o d.events
                \o (IF d.exc = "none" THEN <<>> ELSE <<Ev("raised", <<d.exc>>)>>)
    /\ lpc' = IF d.exc = "none" THEN next ELSE "ended"

\* The loop goes on after a step that did d: to next, or out of run_loop
\* (through finally: rec.shutdown()) on an exception nothing caught.
Advance(before, d, next) ==
    /\ memFile' = d.fs.mem
    /\ tmpFile' = d.fs.tmp
    /\ hist' = hist \o d.turns
    /\ trace' = before \o d.events
                \o (IF d.exc = "none" THEN <<>>
                    ELSE <<Ev("raised", <<d.exc>>), Ev("shutdown", <<>>)>>)
    /\ lpc' = IF d.exc = "none" THEN next ELSE "ended"

\* lines 145-177: the stages in the order the loop body tries them; the
\* user's turn is logged between the fast path and the routers
STAGE_ORDER == <<"skill_admin", "memory_admin", "fast", "log_user", "router", "legacy", "llm">>

\* a loop body that goes from the skill admin stage to the fast path
StageAfterSkipping(stage) ==
    IF stage = "skill_admin" THEN "fast"
    ELSE STAGE_ORDER[(CHOOSE i \in 1..Len(STAGE_ORDER) : STAGE_ORDER[i] = stage) + 1]

\* the statement the loop body goes to when a stage did not take the
\* utterance
StageAfter(stage) ==
    STAGE_ORDER[(CHOOSE i \in 1..Len(STAGE_ORDER) : STAGE_ORDER[i] = stage) + 1]

\* a loop body without continue statements
NextStageAlways(stage, taken) == StageAfter(stage)

\* continue when the stage took the utterance, else the next statement
NextStage(stage, taken) == IF taken THEN "listen" ELSE StageAfter(stage)

\* nothing done
Nothing(fs) == Done("none", <<>>, fs, <<>>)

\* lines 104-143: the next utterance is taken from the recorder (or typed),
\* in a run of the loop over at most max utterances
HearUpTo(max, raw, voiceOk) ==
    LET fs == Fs(memFile, tmpFile)
        Step(h, d) ==
            /\ lpc = "listen"
            /\ heard < max
            /\ h.says = <<>> => voiceOk
            /\ heard' = heard + 1
            /\ awake' = h.awake
            /\ utt' = IF h.user = <<>> THEN <<>> ELSE h.user[1]
            /\ IF h.leave
               THEN /\ trace' = <<Ev("heard", raw), Ev("shutdown", <<>>)>>
                    /\ lpc' = "ended"
                    /\ UNCHANGED <<memFile, tmpFile, hist>>
               ELSE Advance(<<Ev("heard", raw)>>, d,
                            IF h.user = <<>> THEN "listen" ELSE "skill_admin")
            /\ llm' = Llm(llm.sess, <<>>, <<>>, FALSE, <<>>)
            /\ UNCHANGED <<last, procVars, skillVars, mic>>
        With(h) == Step(h, IF h.says = <<>> THEN Nothing(fs) ELSE Say(fs, h.says[1], voiceOk))
    IN  With(LoopHead(raw, awake))

\* the loop of SpecLoop and SpecLlm hears at most MaxHeard utterances
Hear(raw, voiceOk) == HearUpTo(MaxHeard, raw, voiceOk)

\* line 146: handle_skill_admin(ctx, low)
StageSkillAdmin(voiceOk) ==
    LET fs == Fs(memFile, tmpFile)
        Step(h, d) ==
            /\ lpc = "skill_admin"
            /\ (h.exc # "none" \/ ~h.handled) => voiceOk
            /\ stateFile' = h.stateFile
            /\ skillsDir' = h.skillsDir
            /\ skills' = h.skills
            /\ rules' = h.rules
            /\ Advance(trace \o <<Stage("skill_admin")>>, d, NextStage("skill_admin", h.handled))
            /\ UNCHANGED <<last, procVars, lastSkill, awake, utt, llm, heard, mic>>
        With(h) == Step(h, IF h.exc # "none" THEN Done(h.exc, <<>>, fs, <<>>)
                           ELSE IF h.handled THEN Say(fs, h.reply[1], voiceOk)
                           ELSE Nothing(fs))
    IN  With(HandleSkillAdmin(StrStrip(StrLower(utt)), stateFile, skillsDir, skills, rules))

\* line 147: handle_memory_admin(ctx, low)
StageMemoryAdmin(voiceOk) ==
    LET Step(h, d) ==
            /\ lpc = "memory_admin"
            /\ (h.exc # "none" \/ ~h.handled) => voiceOk
            /\ Advance(trace \o <<Stage("memory_admin")>>, d, NextStage("memory_admin", h.handled))
            /\ UNCHANGED <<last, procVars, skillVars, awake, utt, llm, heard, mic>>
        With(h) == Step(h, IF h.exc # "none" THEN Done(h.exc, <<>>, h.fs, <<>>)
                           ELSE IF h.handled THEN Say(h.fs, h.reply[1], voiceOk)
                           ELSE Nothing(h.fs))
    IN  With(HandleMemoryAdmin(StrStrip(StrLower(utt)), Fs(memFile, tmpFile)))

\* lines 150-152: the memory fast path
StageFast(voiceOk) ==
    LET fs == Fs(memFile, tmpFile)
        Step(a, d) ==
            /\ lpc = "fast"
            /\ (a.exc # "none" \/ ~Truthy(a.ans)) => voiceOk
            /\ Advance(trace \o <<Stage("fast")>>, d, NextStage("fast", Truthy(a.ans)))
            /\ UNCHANGED <<last, procVars, skillVars, awake, utt, llm, heard, mic>>
        With(a) == Step(a, IF a.exc # "none" THEN Done(a.exc, <<>>, fs, <<>>)
                           ELSE IF Truthy(a.ans) THEN Say(fs, a.ans[1], voiceOk)
                           ELSE Nothing(fs))
    IN  With(MemoryAnswer(memFile, utt))

\* line 155: ctx.mem.append_conversation(user=user)
LogUser ==
    /\ lpc = "log_user"
    /\ Advance(trace, LogTurn(<<>>, Fs(memFile, tmpFile), <<utt>>, <<>>), StageAfter("log_user"))
    /\ UNCHANGED <<last, procVars, skillVars, awake, utt, llm, heard, mic>>

\* the events ev, then what d did
After(ev, d) == Done(d.exc, ev \o d.events, d.fs, d.turns)

\* try: ... except Exception as e: print(...): the exception ends there
Caught(d) ==
    IF d.exc = "none" THEN d
    ELSE Done("none", d.events \o <<Ev("caught", <<d.exc>>)>>, d.fs, d.turns)

\* lines 158-164: the primary router and the skill it selects; the skill
\* returns its text or raises
StageRouter(runOk, voiceOk) ==
    LET fs == Fs(memFile, tmpFile)
        Step(sk, ran) ==
            /\ lpc = "router"
            /\ sk = <<>> => runOk
            /\ (sk = <<>> \/ ~runOk) => voiceOk
            /\ Advance(trace \o <<Stage("router")>>, Caught(ran),
                       NextStage("router", sk # <<>> /\ ran.exc = "none"))
            /\ UNCHANGED <<last, procVars, skillVars, awake, utt, llm, heard, mic>>
        With(sk) == Step(sk, IF sk = <<>> THEN Nothing(fs)
                             ELSE IF ~runOk THEN Done("Exception", <<Ev("run", sk[1].name)>>, fs, <<>>)
                             ELSE After(<<Ev("run", sk[1].name)>>, Say(fs, RunResult(sk[1]), voiceOk)))
    IN  With(RouterRoute(rules, skills, utt))

\* registry.run(name, user, context): the remember skill, or a skill of
\* _REGISTRY, which returns its text or raises
RegistryRun(fs, name, query, runOk) ==
    IF name = REMEMBER THEN RunRemember(fs, query)
    ELSE IF name \notin REGISTRY_NAMES THEN MemHandled(TRUE, "ValueError", <<>>, fs)
    ELSE IF runOk THEN MemHandled(TRUE, "none", <<LegacyResult(name)>>, fs)
    ELSE MemHandled(TRUE, "Exception", <<>>, fs)

\* lines 166-175: the legacy router and the skill it names
StageLegacy(runOk, voiceOk) ==
    LET fs == Fs(memFile, tmpFile)
        Step(lg, ran) ==
            /\ lpc = "legacy"
            /\ (lg = <<>> \/ lg[1] = REMEMBER) => runOk
            /\ (lg = <<>> \/ (ran.exc # "none" /\ Len(ran.events) = 1)) => voiceOk
            /\ Advance(trace \o <<Stage("legacy")>>, Caught(ran),
                       NextStage("legacy", lg # <<>> /\ ran.exc = "none"))
            /\ UNCHANGED <<last, procVars, skillVars, awake, utt, llm, heard, mic>>
        Ran(lg, res) ==
            IF res.exc # "none" THEN Done(res.exc, <<Ev("legacy_run", lg[1])>>, res.fs, <<>>)
            ELSE After(<<Ev("legacy_run", lg[1])>>, Say(res.fs, res.reply[1], voiceOk))
        With(lg) == Step(lg, IF lg = <<>> THEN Nothing(fs)
                             ELSE Ran(lg, RegistryRun(fs, lg[1], utt, runOk)))
    IN  With(LegacyRoute(utt))

\* llm_respond lines 7-12: the facts for the LLM and user_for_llm
StageLlm ==
    LET Step(u) ==
            /\ lpc = "llm"
            /\ llm' = Llm(llm.sess, TextOf(u.ans), <<>>, FALSE, <<>>)
            /\ Advance(trace \o <<Stage("llm")>>, Done(u.exc, <<>>, Fs(memFile, tmpFile), <<>>),
                       "llm_stream")
            /\ UNCHANGED <<last, procVars, skillVars, awake, utt, heard, mic>>
    IN  Step(UserForLlm(memFile, utt))

\* "".join(full)
RECURSIVE Concat(_)
Concat(chunks) == IF chunks = <<>> THEN <<>> ELSE Head(chunks) \o Concat(Tail(chunks))

\* a backend object whose except clauses keep the chat they have
AfterFailureSameChat(sess, fails, newChatOk) ==
    IF ~fails THEN "used" ELSE sess

\* the session after a request: answered, or failed with _new_chat() in
\* the except clause,
\* whose own failure is passed over
AfterFailure(sess, fails, newChatOk) ==
    IF ~fails THEN "used" ELSE IF newChatOk THEN "new" ELSE sess

\* a fallback chain that goes on whatever the stage produced
FallbackAlways(reply, next) == next

\* if not reply: the next stage is attempted only when reply is empty
Fallback(reply, next) == IF reply # <<>> THEN "llm_finish" ELSE next

\* a backend object that starts a new session after every request
ExceptClauseAlways(fails, newChatOk) ==
    (IF fails THEN <<Ev("failed", <<>>)>> ELSE <<>>) \o <<Ev("new_chat", <<>>)>>

\* the except clause of stream and of send: the request failed, and
\* _new_chat() made a new session unless it failed too
ExceptClause(fails, newChatOk) ==
    IF ~fails THEN <<>>
    ELSE <<Ev("failed", <<>>)>> \o (IF newChatOk THEN <<Ev("new_chat", <<>>)>> ELSE <<>>)

\* lines 15-26: the stream stage; the backend yields the chunks and then
\* ends or fails
LlmStream(chunks, fails, newChatOk) ==
    LET full == Concat(chunks)
        reply == StrStrip(full)
    IN  /\ lpc = "llm_stream"
        /\ ~fails => newChatOk
        /\ llm' = Llm(AfterFailure(llm.sess, fails, newChatOk), llm.text, full,
                      chunks # <<>>, reply)
        /\ trace' = trace \o <<Ev("stream", llm.text)>>
                    \o [i \in 1..Len(chunks) |-> Ev("print_chunk", chunks[i])]
                    \o ExceptClause(fails, newChatOk)
        /\ lpc' = Fallback(reply, "llm_send")
        /\ UNCHANGED <<memVars, procVars, skillVars, awake, utt, heard, mic>>

\* LLM.send: the text of the response stripped, "" on a failure
SendText(text, fails) == IF fails THEN <<>> ELSE StrStrip(text)

\* lines 29-30 and line 35: a blocking send
LlmSend(text, fails, newChatOk) ==
    LET reply == SendText(text, fails)
    IN  /\ lpc \in {"llm_send", "llm_send2"}
        /\ ~fails => newChatOk
        /\ fails => text = <<>>
        /\ llm' = [llm EXCEPT !.sess = AfterFailure(llm.sess, fails, newChatOk),
                              !.reply = reply]
        /\ trace' = trace \o <<[t |-> "send", a |-> llm.text, b |-> reply]>>
                    \o ExceptClause(fails, newChatOk)
        /\ lpc' = IF lpc = "llm_send2" THEN "llm_finish" ELSE Fallback(reply, "llm_reset")
        /\ UNCHANGED <<memVars, procVars, skillVars, awake, utt, heard, mic>>

\* line 34: ctx.llm.reset(), which raises when _new_chat fails
LlmReset(resetOk) ==
    /\ lpc = "llm_reset"
    /\ llm' = [llm EXCEPT !.sess = IF resetOk THEN "new" ELSE llm.sess]
    /\ Advance(trace \o <<Ev("reset", <<>>)>>,
               Done(IF resetOk THEN "none" ELSE "Exception", <<>>, Fs(memFile, tmpFile), <<>>),
               "llm_send2")
    /\ UNCHANGED <<last, procVars, skillVars, awake, utt, heard, mic>>

\* a reply without the fixed apology
FinalReplyEmpty(reply) == reply

\* lines 38-39: if not reply: reply = "Sorry, ..."
FinalReply(reply) == IF reply = <<>> THEN APOLOGY ELSE reply

\* lines 38-49: the apology if nothing came, then print, speak and log
LlmFinish(voiceOk) ==
    LET reply == FinalReply(llm.reply)
        shown == IF llm.printed THEN <<>> ELSE <<Ev("print", reply)>>
    IN  /\ lpc = "llm_finish"
        /\ llm' = [llm EXCEPT !.reply = reply]
        /\ Advance(trace,
                   LogTurn(shown \o Speak(reply, voiceOk), Fs(memFile, tmpFile),
                           <<>>, <<reply>>),
                   "listen")
        /\ UNCHANGED <<last, procVars, skillVars, awake, utt, heard, mic>>

-----------------------------------------------------------------------------
(* The assistant after boot(): run_loop over a few utterances *)

BEN == <<"B", "e", "n">>
USER_NAME == <<"u", "s", "e", "r", "_", "n", "a", "m", "e">>


\* what the user says
Utterances ==
    { <<"o", "r", "i", "o", "n">>,
      <<"o", "r", "i", "o", "n", ",", " ", "s", "k", "i", "l", "l", " ", "d", "i", "s", "a", "b", "l", "e", " ", "w", "e", "a">>,
      <<"r", "e", "l", "o", "a", "d">>,
      <<"o", "r", "i", "o", "n", " ", "r", "a", "i", "n">>,
      <<"o", "r", "i", "o", "n", ",", " ", "w", "h", "a", "t", "'", "s", " ", "m", "y", " ", "n", "a", "m", "e", "?">>,
      <<"m", "e", "m", "o", "r", "y", " ", "s", "e", "t", " ", "u", "s", "e", "r", "_", "n", "a", "m", "e", " ", "=", " ", "B", "e", "n">>,
      <<"r", "e", "m", "e", "m", "b", "e", "r", ":", " ", "a", "_", "b", " ", "=", " ", "N", "a">>,
      <<"r", "e", "m", "e", "m", "b", "e", "r", ":", " ", "n", "e", "w", "s", " ", "=", " ", "b", "b", "c">>,
      <<"o", "r", "i", "o", "n", " ", "t", "e", "l", "l", " ", "m", "e">>,
      <<"g", "o", " ", "t", "o", " ", "s", "l", "e", "e", "p">>,
      <<"c", "l", "o", "s", "e", ".">> }

\* what the backend streams: nothing, or a text in one chunk
LoopStreams == { <<>>, << <<"H", "e", "l", "l", "o">> >> }

\* the text of a response to send
LoopSends == { <<>>, <<"H", "e", "l", "l", "o">> }

\* the store file is damaged by hand, or by another process, while the
\* loop runs
LoopEdits == { File(Garbage) }

LoopEdit(f) ==
    /\ lpc \notin {"off", "ended"}
    /\ HandEdit(f)

InitLoop ==
    /\ memFile = File(Dumps(Dict(TRUE, <<Pair(USER_NAME, BEN)>>, TRUE, <<>>)))
    /\ tmpFile = NoFile
    /\ last = Call("init", <<>>, <<>>, "none", <<>>)
    /\ hist = <<>>
    /\ ProcInit
    /\ stateFile = NoFile
    /\ skillsDir = Directory
    /\ skills = LoadSkills(stateFile, skillsDir).skills
    /\ rules = RouterRules(skills)
    /\ lastSkill = Call("boot", <<>>, <<>>, "none", <<>>)
    /\ awake = FALSE
    /\ lpc = "listen"
    /\ utt = <<>>
    /\ trace = <<>>
    /\ llm = Llm("new", <<>>, <<>>, FALSE, <<>>)
    /\ heard = 0
    /\ mic = MicIdle

\* the stages of the loop body before llm_respond
Stages ==
    \/ \E v \in BOOLEAN : StageSkillAdmin(v)
    \/ \E v \in BOOLEAN : StageMemoryAdmin(v)
    \/ \E v \in BOOLEAN : StageFast(v)
    \/ LogUser
    \/ \E r \in BOOLEAN, v \in BOOLEAN : StageRouter(r, v)
    \/ \E r \in BOOLEAN, v \in BOOLEAN : StageLegacy(r, v)

\* llm_respond over a backend that streams one of streams and answers a
\* send with one of sends, and whose requests fail as failures says
Respond(streams, sends, failures) ==
    \/ StageLlm
    \/ \E c \in streams, f \in failures, n \in BOOLEAN : LlmStream(c, f, n)
    \/ \E t \in sends, f \in failures, n \in BOOLEAN : LlmSend(t, f, n)
    \/ \E r \in BOOLEAN : LlmReset(r)
    \/ \E v \in BOOLEAN : LlmFinish(v)

\* the loop over a backend whose requests are answered, with a text or
\* with nothing; requests that fail are the subject of NextLlm
NextLoop ==
    \/ \E u \in Utterances, v \in BOOLEAN : Hear(u, v)
    \/ Stages
    \/ Respond(LoopStreams, LoopSends, {FALSE})
    \/ \E f \in LoopEdits : LoopEdit(f)

SpecLoop == InitLoop /\ [][NextLoop]_vars

-----------------------------------------------------------------------------
(* llm_respond over every kind of backend answer *)

\* utterances no stage before llm_respond takes
LlmUtterances == { <<"o", "r", "i", "o", "n", " ", "t", "e", "l", "l", " ", "m", "e">>, <<"t", "e", "l", "l", " ", "m", "e">> }

\* what the backend streams: nothing, white space, or a text in two chunks
StreamChunks == { <<>>, << <<" ">> >>, << <<"H", "e", "l">>, <<"l", "o", " ">> >> }

\* the text of a response to send
SendTexts == { <<>>, <<" ", "H", "e", "l", "l", "o", " ">> }

\* the store file is edited by hand, or by another process, while the loop
\* runs
LlmEdits == { File(Garbage), File(Dumps(EmptyDoc)) }

NextLlm ==
    \/ \E u \in LlmUtterances, v \in BOOLEAN : Hear(u, v)
    \/ Stages
    \/ Respond(StreamChunks, SendTexts, BOOLEAN)
    \/ \E f \in LlmEdits : LoopEdit(f)

SpecLlm == InitLoop /\ [][NextLlm]_vars

-----------------------------------------------------------------------------
(* Properties of the main loop *)

\* the events of the current utterance of kind t
EventsOf(t) == { i \in 1..Len(trace) : trace[i].t = t }

\* the step said what set_enabled returns
SaidSetEnabled(tr) ==
    \E i \in 1..Len(tr) :
        /\ tr[i].t = "print"
        /\ tr[i].a # <<>>
        /\ tr[i].a[1] \in {"Enabled", "Disabled"}

\* C11: an enable or disable command (every step of handle_skill_admin that
\* rewrites the enable-state file or says set_enabled's message) leaves
\* ctx.skills, the router's rules and the skills directory as they were
C11_OnlyEnableState ==
    [][(lpc = "skill_admin" /\ (stateFile' # stateFile \/ SaidSetEnabled(trace')))
        => (skills' = skills /\ rules' = rules /\ skillsDir' = skillsDir)]_vars

\* wea is disabled in the enable-state file, and the router still selects
\* it and it runs
C11_Witness ==
    /\ ~IsEnabled(WEA, ReadState(stateFile).map)
    /\ \E i \in EventsOf("run") : trace[i].a = WEA

\* the stages the current utterance has entered, in the order of entry
StagesEntered == [i \in 1..Len(SelectSeq(trace, LAMBDA e : e.t = "stage")) |->
                    SelectSeq(trace, LAMBDA e : e.t = "stage")[i].a[1]]

\* the order of the stages
PIPELINE == <<"skill_admin", "memory_admin", "fast", "router", "legacy", "llm">>

\* between the events i and j there is an event of kind t
Between(i, j, t) == \E k \in (i + 1)..(j - 1) : trace[k].t = t

\* C13: the stages an utterance has entered are the first stages of the
\* fixed order, none left out; and a stage is entered after an earlier one
\* only if the earlier one said nothing, or its reply ended in an exception
\* that the loop caught (the stage did not reach its continue)
C13_StageOrder ==
    /\ Len(StagesEntered) <= Len(PIPELINE)
    /\ StagesEntered = SubSeq(PIPELINE, 1, Len(StagesEntered))
    /\ \A i \in EventsOf("stage") : \A j \in EventsOf("stage") :
          i < j => (~Between(i, j, "print") \/ Between(i, j, "caught"))

\* an admin command that also matches a trigger of wea was taken by the
\* skill admin stage: it was answered, and no skill ran
C13_Witness ==
    /\ lpc = "listen"
    /\ RouterRoute(rules, skills, utt) # <<>>
    /\ StagesEntered = <<"skill_admin">>
    /\ EventsOf("print") # {}
    /\ EventsOf("run") = {}

\* the replies given for the current utterance: the texts printed after
\* "Orion:", the streamed chunks counting as one
Replies ==
    Cardinality(EventsOf("print")) + (IF EventsOf("print_chunk") = {} THEN 0 ELSE 1)

EnteredAt(name) ==
    IF \E i \in EventsOf("stage") : trace[i].a = <<name>>
    THEN CHOOSE i \in EventsOf("stage") : trace[i].a = <<name>>
    ELSE 0

\* C15 as stated: the legacy router is consulted only for an utterance for
\* which the primary router selected no skill
C15_LegacyOnlyIfNoSkill ==
    EnteredAt("legacy") # 0 => EventsOf("run") = {}

\* C15: the legacy router is consulted only for an utterance for which the
\* primary router selected no skill, or whose selected skill was called and
\* an exception of the call (of run, or of the say of its result) was caught
C15_LegacyAfterNoSkillOrError ==
    EnteredAt("legacy") # 0 =>
        \/ EventsOf("run") = {}
        \/ \E i \in EventsOf("run") : \E k \in EventsOf("caught") :
              EnteredAt("router") < i /\ i < k /\ k < EnteredAt("legacy")

\* the legacy router is consulted after the selected skill raised
C15_Witness ==
    /\ EnteredAt("legacy") # 0
    /\ \E i \in EventsOf("run") : trace[i + 1].t = "caught"

\* a skill raised while running: its call is directly followed by the
\* except clause
SkillRaised ==
    \E i \in EventsOf("run") \cup EventsOf("legacy_run") : trace[i + 1].t = "caught"

\* C16: for an utterance whose skill (selected by the primary or by the
\* legacy router) raised while running, the loop does not end, and the
\* utterance has a reply when the loop is back at listening
C16_RaisingSkillStillAnswered ==
    SkillRaised =>
        /\ lpc # "ended"
        /\ lpc = "listen" => Replies >= 1

-----------------------------------------------------------------------------
(* Properties of llm_respond *)

\* the requests made to the backend for the current utterance, in order
BackendCalls == SelectSeq(trace, LAMBDA e : e.t \in {"stream", "send", "reset"})

\* the order of the backend stages
BACKEND_ORDER == <<"stream", "send", "reset", "send">>

\* the chunks streamed for the current utterance, joined and stripped
Streamed ==
    StrStrip(Concat([i \in 1..Len(SelectSeq(trace, LAMBDA e : e.t = "print_chunk")) |->
                        SelectSeq(trace, LAMBDA e : e.t = "print_chunk")[i].a]))

\* llm_respond is past its stream loop
PastStream == lpc \in {"llm_send", "llm_reset", "llm_send2", "llm_finish"}

\* C17: the backend requests of an utterance are the first ones of stream,
\* send, reset, send; the stream request has been made once llm_respond is
\* past its stream loop; and a request follows another only if everything
\* produced before it was empty
C17_FallbackOrder ==
    /\ Len(BackendCalls) <= Len(BACKEND_ORDER)
    /\ \A i \in 1..Len(BackendCalls) : BackendCalls[i].t = BACKEND_ORDER[i]
    /\ PastStream => Len(BackendCalls) >= 1
    /\ Len(BackendCalls) >= 2 => Streamed = <<>>
    /\ Len(BackendCalls) >= 3 => BackendCalls[2].b = <<>>
    /\ (lpc = "llm_finish" /\ Len(BackendCalls) < Len(BACKEND_ORDER)) =>
          IF Len(BackendCalls) = 1 THEN Streamed # <<>>
          ELSE BackendCalls[2].b # <<>>

\* all four requests were made for one utterance
C17_Witness == Len(BackendCalls) = Len(BACKEND_ORDER)

\* the first non-empty text among the stream, the first send, the send after
\* the reset, and the apology
FirstNonEmpty ==
    IF Streamed # <<>> THEN Streamed
    ELSE IF Len(BackendCalls) >= 2 /\ BackendCalls[2].b # <<>> THEN BackendCalls[2].b
    ELSE IF Len(BackendCalls) >= 4 /\ BackendCalls[4].b # <<>> THEN BackendCalls[4].b
    ELSE APOLOGY

\* C18: a step in which llm_respond returns makes the first non-empty text
\* its reply, speaks (or tries to speak) it, prints it unless chunks were
\* printed, and appends exactly one turn, {bot: that text}, to the log
C18_FinalReply ==
    [][(lpc = "llm_finish" /\ lpc' = "listen") =>
          /\ llm'.reply = FirstNonEmpty
          /\ ConvOf(memFile') = ConvOf(memFile) \o <<TurnB(FirstNonEmpty)>>
          /\ Len(trace') >= Len(trace) + 2
          /\ trace'[Len(trace')] = Ev("append", FirstNonEmpty)
          /\ \E i \in (Len(trace) + 1)..Len(trace') :
                trace'[i].t \in {"speak", "speak_raised"} /\ trace'[i].a = FirstNonEmpty
          /\ \A i \in (Len(trace) + 1)..Len(trace') :
                trace'[i].t = "print" => trace'[i].a = FirstNonEmpty
          /\ (\E i \in (Len(trace) + 1)..Len(trace') : trace'[i].t = "print")
                <=> ~llm.printed]_vars

\* nothing streamed, send gave "", the send after the reset gave "Hello":
\* the reply is "Hello" and the last turn of the log is {bot: "Hello"}
C18_Witness ==
    /\ lpc = "listen"
    /\ Len(BackendCalls) = 4
    /\ EventsOf("print_chunk") = {}
    /\ BackendCalls[4].b = <<"H", "e", "l", "l", "o">>
    /\ llm.reply = <<"H", "e", "l", "l", "o">>
    /\ ConvOf(memFile) # <<>>
    /\ ConvOf(memFile)[Len(ConvOf(memFile))] = TurnB(<<"H", "e", "l", "l", "o">>)

\* C19: no exception leaves llm_respond from a request to the backend: an
\* exception that ends the loop never comes directly after a stream, send
\* or reset request
C19_BackendFailureContained ==
    \A i \in EventsOf("raised") :
        i > 1 => trace[i - 1].t \notin {"stream", "send", "reset"}

-----------------------------------------------------------------------------
(* Properties of the voice output *)

\* the exceptions of the store's append
STORE_ERRORS == {"JSONDecodeError", "AttributeError"}

\* C20: a speak that raised, in say() or in llm_respond, is followed by
\* its except clause; the reply was printed before it (as text, or as the
\* streamed chunks); the append of the bot turn comes next, and only an
\* exception of that append over an unreadable store file, never the one
\* of speak, goes further
C20_SpeakFailureCaught ==
    \A i \in EventsOf("speak_raised") :
        /\ Len(trace) >= i + 2
        /\ trace[i + 1].t = "print_tts_error"
        /\ trace[i - 1] = Ev("print", trace[i].a) \/ EventsOf("print_chunk") # {}
        /\ \/ trace[i + 2] = Ev("append", trace[i].a)
           \/ /\ trace[i + 2].t \in {"caught", "raised"}
              /\ trace[i + 2].a[1] \in STORE_ERRORS
              /\ MemRead(memFile).exc # "none"

\* say() spoke in vain, the bot turn is in the log and the loop listens again
C20_Witness ==
    /\ lpc = "listen"
    /\ EnteredAt("llm") = 0
    /\ \E i \in EventsOf("speak_raised") :
          /\ trace[i + 2] = Ev("append", trace[i].a)
          /\ ConvOf(memFile) # <<>>
          /\ ConvOf(memFile)[Len(ConvOf(memFile))] = TurnB(trace[i].a)

-----------------------------------------------------------------------------
(* Properties of the memory fast path *)

\* the entry of QMAP the utterance is a question of (0 if of none)
QuestionOf(text) == FirstQuestion(StrStrip(StrLower(text)), 1)

\* the fact the store file f holds for key: <<>> when it holds none
FactOf(f, key) ==
    IF MemoryRecall(f, key).exc = "none" THEN MemoryRecall(f, key).ret ELSE <<>>

\* the events of tr that belong to a router, a skill or the LLM
Routed(tr) ==
    { i \in 1..Len(tr) :
        \/ tr[i].t \in {"run", "legacy_run", "stream", "send", "reset"}
        \/ tr[i] \in {Stage("router"), Stage("legacy"), Stage("llm")} }

-----------------------------------------------------------------------------
(* Properties of the memory admin commands *)

\* the key and the value of a 'memory set <key> = <value>' utterance as the
\* user gave them (<<>> when the utterance is not of that grammar)
SetCommandOf(text) ==
    LET s == StrStrip(text)
        span == GroupSpan(s, 0, MEM_SET_PRE, KEY_GROUP, MEM_SET_POST)
        vspan == GroupSpan(s, span[2], MEM_SET_MID, Plus(AnyChar), EOL)
    IN  IF GroupSpans(s, 0, MEM_SET_PRE, KEY_GROUP, MEM_SET_POST) = {} THEN <<>>
        ELSE <<[key |-> SubSeq(s, span[1] + 1, span[2]),
                val |-> StrStrip(SubSeq(s, vspan[1] + 1, vspan[2]))]>>

\* C22: when the memory admin stage takes a 'memory set <key> = <value>'
\* utterance, the store afterwards holds the value as the user gave it under
\* the normalized key, and the reply printed contains that value
C22_MemorySetKeepsValue ==
    [][(lpc = "memory_admin" /\ lpc' = "listen" /\ SetCommandOf(utt) # <<>>)
       => (/\ FactOf(memFile', NormalizeKey(SetCommandOf(utt)[1].key))
                = <<SetCommandOf(utt)[1].val>>
           /\ \E i \in 1..Len(trace') :
                 /\ trace'[i].t = "print"
                 /\ StrIn(SetCommandOf(utt)[1].val, trace'[i].a))]_vars

-----------------------------------------------------------------------------
(* core/plugins.py: scaffold, called on a skills directory that is edited *)

MaxScaffolds == 2

FOO_BAR == <<"F", "o", "o", " ", "B", "a", "r", "!">>

\* the names scaffold is called with: names that need sanitizing, the stem
\* of an existing file, the NAME of an existing skill, an empty name
ScaffoldNames ==
    { FOO_BAR, <<"f", "o", "o", "_", "b", "a", "r", "_">>, <<"A", "-", "b">>, HI, WEA, <<"w", "x">>, <<>> }

\* scaffold(name), recorded with the name and the stem of the path returned
ScaffoldCall(name) ==
    /\ Len(Scaffold(skillsDir, name)) <= Len(Directory) + MaxScaffolds
    /\ skillsDir' = Scaffold(skillsDir, name)
    /\ lastSkill' = Call("scaffold", name, SafeName(name), "none", <<>>)
    /\ UNCHANGED <<stateFile, skills, rules, memVars, procVars, loopVars>>

\* the user edits the file of a skill: its triggers become its stem alone
EditSkillFile(i) ==
    /\ i \in 1..Len(skillsDir)
    /\ skillsDir[i].triggers # <<skillsDir[i].stem>>
    /\ skillsDir' = [skillsDir EXCEPT ![i].triggers = <<skillsDir[i].stem>>]
    /\ lastSkill' = Call("edit_skill", skillsDir[i].stem, <<>>, "none", <<>>)
    /\ UNCHANGED <<stateFile, skills, rules, memVars, procVars, loopVars>>

InitScaffold ==
    /\ stateFile = NoFile
    /\ skillsDir = Directory
    /\ skills = LoadSkills(stateFile, skillsDir).skills
    /\ rules = RouterRules(skills)
    /\ lastSkill = Call("boot", <<>>, <<>>, "none", <<>>)
    /\ MemIdle
    /\ LoopIdle

NextScaffold ==
    \/ \E n \in ScaffoldNames : ScaffoldCall(n)
    \/ \E i \in 1..(Len(Directory) + MaxScaffolds) : EditSkillFile(i)

SpecScaffold == InitScaffold /\ [][NextScaffold]_vars

\* the stems of the files of a directory
Stems(dir) == { dir[i].stem : i \in 1..Len(dir) }

\* C23: a call of scaffold returns the path whose stem is the name with
\* every character outside [A-Za-z0-9_] replaced by '_' and lowercased; if
\* that file exists the directory is left as it was, else the file is added
\* and every other file is left as it was
C23_ScaffoldIdempotent ==
    [][lastSkill'.op = "scaffold"
       => (/\ Len(lastSkill'.b) = Len(lastSkill'.a)
           /\ \A i \in 1..Len(lastSkill'.a) :
                 lastSkill'.b[i] = IF lastSkill'.a[i] \in WordChars
                                   THEN Lower1(lastSkill'.a[i]) ELSE "_"
           /\ lastSkill'.a = FOO_BAR => lastSkill'.b = <<"f", "o", "o", "_", "b", "a", "r", "_">>
           /\ lastSkill'.b \in Stems(skillsDir')
           /\ IF lastSkill'.b \in Stems(skillsDir)
              THEN skillsDir' = skillsDir
              ELSE /\ Len(skillsDir') = Len(skillsDir) + 1
                   /\ SubSeq(skillsDir', 1, Len(skillsDir)) = skillsDir)]_vars

\* scaffold("Foo Bar!") was called when foo_bar_.py existed with triggers
\* edited by the user: the file still has the edited triggers
C23_Witness ==
    /\ lastSkill = Call("scaffold", FOO_BAR, <<"f", "o", "o", "_", "b", "a", "r", "_">>, "none", <<>>)
    /\ \E i \in 1..Len(skillsDir) :
          /\ skillsDir[i].stem = <<"f", "o", "o", "_", "b", "a", "r", "_">>
          /\ skillsDir[i].triggers = << <<"f", "o", "o", "_", "b", "a", "r", "_">> >>

-----------------------------------------------------------------------------
(* core/plugins.py: load_skills and list_all over candidates with defects *)

MaxInstalled == 3

\* files put into the skills directory: a sound skill, a file that fails to
\* import, a file without a callable run, a skill with TRIGGERS = ["(", "rx"]
\* and a skill with TRIGGERS = [42]
Candidates ==
    { Module(<<"o", "k">>, TRUE, TRUE, <<"o", "k">>, << <<"o", "k">> >>),
      Module(<<"b", "r", "k">>, FALSE, TRUE, <<"b", "r", "k">>, << <<"b", "r", "k">> >>),
      Module(<<"n", "o", "r">>, TRUE, FALSE, <<"n", "o", "r">>, << <<"n", "o", "r">> >>),
      Module(<<"r", "x">>, TRUE, TRUE, <<"r", "x">>, << <<"(">>, <<"r", "x">> >>),
      Module(<<"n", "u", "m">>, TRUE, TRUE, <<"n", "u", "m">>, <<NOT_A_STRING>>) }

\* a file is put into the skills directory
InstallFile(m) ==
    /\ Len(skillsDir) < Len(Directory) + MaxInstalled
    /\ \A i \in 1..Len(skillsDir) : skillsDir[i].stem # m.stem
    /\ skillsDir' = Append(skillsDir, m)
    /\ lastSkill' = Call("install", m.stem, <<>>, "none", <<>>)
    /\ UNCHANGED <<stateFile, skills, rules, memVars, procVars, loopVars>>

NextDefects ==
    \/ \E m \in Candidates : InstallFile(m)
    \/ ReloadSkills
    \/ ListSkills
    \/ \E n \in { <<"o", "k">>, <<"r", "x">> }, e \in BOOLEAN : SetEnabled(n, e)

SpecDefects == InitScaffold /\ [][NextDefects]_vars

\* the candidates of the directory that import and have a callable run
Sound(dir) ==
    { IterSkillModules(dir)[i] :
        i \in { j \in 1..Len(IterSkillModules(dir)) :
                  IterSkillModules(dir)[j].imports /\ IterSkillModules(dir)[j].hasRun } }

\* C24: load_skills and list_all do not raise, whatever the defects of the
\* candidates; load_skills returns exactly the enabled candidates that
\* import and have a callable run, list_all lists exactly the candidates
\* that import and have a callable run, and no pattern of a loaded skill is
\* a trigger that cannot be compiled
C24_DefectsContained ==
    /\ lastSkill.op \in {"reload", "list_all"} => lastSkill.exc = "none"
    /\ lastSkill.op = "reload" =>
          /\ Names(skills) = { m.name : m \in { x \in Sound(skillsDir) :
                                 IsEnabled(x.name, ReadState(stateFile).map) } }
          /\ \A i \in 1..Len(skills) : \A j \in 1..Len(skills[i].patterns) :
                skills[i].patterns[j] \notin Uncompilable \cup {NOT_A_STRING}
    /\ lastSkill.op = "list_all" =>
          { lastSkill.ret[i].a : i \in 1..Len(lastSkill.ret) }
             = { m.name : m \in Sound(skillsDir) }

-----------------------------------------------------------------------------
(* core/admin.py: reload_skills, statement by statement *)

\* a reload that empties the active set before it loads
SkillsClearedFirst(sks, r) == r.skills

\* ctx.skills after ctx.skills = load_skills(): the assignment is not
\* reached when load_skills raises
SkillsAfterLoad(sks, r) == IF r.exc = "none" THEN r.skills ELSE sks

\* the loop is at a statement from which it can go on to route an utterance:
\* not between the two statements of reload_skills, and not ended
Running == lastSkill.op \notin {"load_skills", "interrupt"}

\* line 16: ctx.skills = load_skills(); an exception leaves reload_skills,
\* handle_skill_admin and run_loop
ReloadLoad ==
    /\ Running
    /\ skills' = SkillsAfterLoad(skills, LoadSkills(stateFile, skillsDir))
    /\ lastSkill' = Call("load_skills", <<>>, <<>>, LoadSkills(stateFile, skillsDir).exc, <<>>)
    /\ UNCHANGED <<stateFile, skillsDir, rules, memVars, procVars, loopVars>>

\* line 17: ctx.router = PluginRouter(ctx.skills)
ReloadRouter ==
    /\ lastSkill.op = "load_skills"
    /\ lastSkill.exc = "none"
    /\ rules' = RouterRules(skills)
    /\ lastSkill' = Call("reload", <<>>, <<>>, "none", <<>>)
    /\ UNCHANGED <<stateFile, skillsDir, skills, memVars, procVars, loopVars>>

\* a KeyboardInterrupt between the two statements: run_loop ends
ReloadInterrupted ==
    /\ lastSkill.op = "load_skills"
    /\ lastSkill.exc = "none"
    /\ lastSkill' = Call("interrupt", <<>>, <<>>, "KeyboardInterrupt", <<>>)
    /\ UNCHANGED <<stateFile, skillsDir, skills, rules, memVars, procVars, loopVars>>

\* the utterances routed between reloads
ReloadTexts == { <<"o", "k">>, <<"h", "i">>, <<"r", "x", " ", "r", "a", "i", "n">>, <<"n", "u", "m">> }

NextReload ==
    \/ ReloadLoad
    \/ ReloadRouter
    \/ ReloadInterrupted
    \/ \E m \in Candidates : Running /\ InstallFile(m)
    \/ \E u \in ReloadTexts : Running /\ Route(u)

SpecReload == InitScaffold /\ [][NextReload]_vars

\* C25: in every state from which an utterance can be routed the router's
\* rules are those of the active skill set; and a load that raises leaves
\* the active set and the rules as they were, the rules being those of the
\* set
C25_AtomicSwap ==
    [][/\ Running' => rules' = RouterRules(skills')
       /\ (lastSkill'.op = "load_skills" /\ lastSkill'.exc # "none")
             => (skills' = skills /\ rules' = rules /\ rules' = RouterRules(skills'))]_vars

\* ok.py was installed and loaded by a reload, and the router then selected
\* ok for an utterance
C25_Witness ==
    /\ lastSkill.op = "route"
    /\ lastSkill.ret = <<SkillTok(<<"o", "k">>)>>
    /\ rules = RouterRules(skills)

-----------------------------------------------------------------------------
(* core/runtime.py: run_loop under keyboard interrupts *)

\* lines 179-183: a KeyboardInterrupt raised anywhere in the loop body is
\* caught, and the finally clause shuts the recorder down
Interrupt ==
    /\ lpc \notin {"off", "ended"}
    /\ trace' = trace \o <<Ev("interrupt", <<>>), Ev("shutdown", <<>>)>>
    /\ lpc' = "ended"
    /\ UNCHANGED <<memVars, procVars, skillVars, awake, utt, llm, heard, mic>>

NextInterrupt ==
    \/ NextLoop
    \/ Interrupt

SpecInterrupt == InitLoop /\ [][NextInterrupt]_vars

\* C26: while the loop accepts utterances the recorder's shutdown() has not
\* been called; once run_loop has ended, by 'close.', by a keyboard
\* interrupt or by an exception of a stage, it has been called exactly once,
\* as the last thing done
C26_ShutdownOnce ==
    /\ lpc \notin {"off", "ended"} => EventsOf("shutdown") = {}
    /\ lpc = "ended" =>
          /\ EventsOf("shutdown") = {Len(trace)}
          /\ \/ trace[1] = Ev("heard", <<"c", "l", "o", "s", "e", ".">>)
             \/ EventsOf("interrupt") # {}
             \/ EventsOf("raised") # {}

\* run_loop was ended by a keyboard interrupt in the middle of llm_respond,
\* after the stream was printed
C26_Witness ==
    /\ lpc = "ended"
    /\ EventsOf("interrupt") # {}
    /\ EventsOf("print_chunk") # {}
    /\ EventsOf("shutdown") = {Len(trace)}

\* run_loop was ended by 'close.'
C26_WitnessClose ==
    /\ lpc = "ended"
    /\ trace = <<Ev("heard", <<"c", "l", "o", "s", "e", ".">>), Ev("shutdown", <<>>)>>

\* run_loop was ended by an exception of a stage
C26_WitnessRaised ==
    /\ lpc = "ended"
    /\ EventsOf("raised") # {}

-----------------------------------------------------------------------------
(* core/runtime.py: mic_text and its worker threads *)

MaxMicCalls == 3

\* what recorder.text() returns
RecorderTexts == { <<"h", "i">>, <<" ", "o", "k", " ">>, <<>> }

\* a worker thread and its box: "running" inside recorder.text(), "done"
\* after it stored the text (<<>> for None, <<s>> for s) or the exception;
\* joins counts the t.join calls on it
Worker(st, text, err, joins) == [st |-> st, text |-> text, err |-> err, joins |-> joins]

\* what a call of mic_text gives the loop: None, a text or an exception
MicOut(kind, text) == [kind |-> kind, text |-> text]

\* a mic_text that raises when the join timed out
MicReturnRaises(w) ==
    IF w.st = "running" THEN MicOut("raise", <<>>)
    ELSE IF w.err THEN MicOut("raise", <<>>)
    ELSE MicOut("text", StrStrip(TextOf(w.text)))

\* lines 38-42: None when the thread is alive after the join, the stored
\* exception raised, else (box["text"] or "").strip()
MicReturn(w) ==
    IF w.st = "running" THEN MicOut("none", <<>>)
    ELSE IF w.err THEN MicOut("raise", <<>>)
    ELSE MicOut("text", StrStrip(TextOf(w.text)))

\* lines 29-36: a new box and a new daemon thread, started
MicStart ==
    /\ mic.main = "idle"
    /\ Len(mic.workers) < MaxMicCalls
    /\ mic' = Mic("join", Append(mic.workers, Worker("running", <<>>, FALSE, 0)), mic.out)
    /\ UNCHANGED <<memVars, procVars, skillVars, awake, lpc, utt, trace, llm, heard>>

\* lines 37-42: t.join(timeout) returns, because the thread ended or (when
\* timedOut) because the time was up, and mic_text returns
MicJoin(timedOut) ==
    LET k == Len(mic.workers)
    IN  /\ mic.main = "join"
        /\ timedOut <=> mic.workers[k].st = "running"
        /\ mic' = Mic("idle",
                      [mic.workers EXCEPT ![k].joins = @ + 1],
                      Append(mic.out, MicReturn(mic.workers[k])))
        /\ UNCHANGED <<memVars, procVars, skillVars, awake, lpc, utt, trace, llm, heard>>

\* line 32: recorder.text() returns in thread w, which stores the text in
\* its box and ends
WorkerReturns(w, text) ==
    /\ w \in 1..Len(mic.workers)
    /\ mic.workers[w].st = "running"
    /\ mic' = [mic EXCEPT !.workers[w] = Worker("done", <<text>>, FALSE, @.joins)]
    /\ UNCHANGED <<memVars, procVars, skillVars, awake, lpc, utt, trace, llm, heard>>

\* lines 33-34: recorder.text() raises in thread w, which stores the
\* exception in its box and ends
WorkerRaises(w) ==
    /\ w \in 1..Len(mic.workers)
    /\ mic.workers[w].st = "running"
    /\ mic' = [mic EXCEPT !.workers[w] = Worker("done", <<>>, TRUE, @.joins)]
    /\ UNCHANGED <<memVars, procVars, skillVars, awake, lpc, utt, trace, llm, heard>>

InitMic ==
    /\ MemIdle
    /\ SkillIdle
    /\ LoopIdle

NextMic ==
    \/ MicStart
    \/ \E t \in BOOLEAN : MicJoin(t)
    \/ \E w \in 1..MaxMicCalls, t \in RecorderTexts : WorkerReturns(w, t)
    \/ \E w \in 1..MaxMicCalls : WorkerRaises(w)

SpecMic == InitMic /\ [][NextMic]_vars

\* the calls of mic_text that have returned
Returned == 1..Len(mic.out)

\* C27: a call whose thread is still running when the join is over returns
\* None and leaves the thread running; no thread is joined twice; what a
\* call has returned never changes, and when a thread ends after its call
\* has returned, nothing is given to the loop and the caller is where it was
C27_LateResultDiscarded ==
    [][/\ \A k \in Returned :
             /\ mic'.out[k] = mic.out[k]
             /\ mic'.workers[k].joins = 1
       /\ \A k \in 1..Len(mic.workers) :
             (k = Len(mic.workers) /\ mic.main = "join" /\ mic'.main = "idle"
                /\ mic.workers[k].st = "running")
             => (mic'.out[k] = MicOut("none", <<>>) /\ mic'.workers[k].st = "running")
       /\ \A k \in Returned :
             (mic.workers[k].st = "running" /\ mic'.workers[k].st = "done")
             => (mic'.out = mic.out /\ mic'.main = mic.main)]_vars

\* the first call timed out, its thread ended later with a text while the
\* second call was made, and the second call returned its own thread's text
C27_Witness ==
    /\ Len(mic.out) >= 2
    /\ mic.out[1] = MicOut("none", <<>>)
    /\ mic.workers[1] = Worker("done", << <<"h", "i">> >>, FALSE, 1)
    /\ mic.out[2] = MicOut("text", <<"o", "k">>)

-----------------------------------------------------------------------------
(* Properties of a stream that fails *)

\* the step is a stream stage in which the backend failed
StreamFailed ==
    /\ lpc = "llm_stream"
    /\ \E i \in (Len(trace) + 1)..Len(trace') : trace'[i].t = "failed"

\* the step made a new session in an except clause
NewChatMade == \E i \in (Len(trace) + 1)..Len(trace') : trace'[i].t = "new_chat"

\* the chunks the step received, joined
Received ==
    Concat([i \in 1..Len(SelectSeq(SubSeq(trace', Len(trace) + 1, Len(trace')),
                                   LAMBDA e : e.t = "print_chunk")) |->
              SelectSeq(SubSeq(trace', Len(trace) + 1, Len(trace')),
                        LAMBDA e : e.t = "print_chunk")[i].a])

\* C28 as stated: a stream stage in which the backend fails raises nothing,
\* leaves a fresh session, keeps the chunks received and, if their
\* concatenation is not empty, goes to the end of llm_respond with it
\* (stripped) as the reply
C28_StreamFailureResets ==
    [][StreamFailed =>
          /\ lpc' # "ended"
          /\ NewChatMade /\ llm'.sess = "new"
          /\ llm'.full = Received
          /\ Received # <<>> => (lpc' = "llm_finish" /\ llm'.reply = StrStrip(Received))]_vars

\* C28, amended: a stream stage in which the backend fails raises nothing,
\* leaves a fresh session or, when making one failed too, the session it
\* had, keeps the chunks received and, if their concatenation stripped of
\* white space is not empty, goes to the end of llm_respond with it as the
\* reply
C28_StreamFailureContained ==
    [][StreamFailed =>
          /\ lpc' # "ended"
          /\ IF NewChatMade THEN llm'.sess = "new" ELSE llm'.sess = llm.sess
          /\ llm'.full = Received
          /\ StrStrip(Received) # <<>> =>
                (lpc' = "llm_finish" /\ llm'.reply = StrStrip(Received))]_vars

\* the stream failed after "Hel" and "lo ", a new session was made, and
\* llm_respond is at its end with the reply "Hello"
C28_Witness ==
    /\ lpc = "llm_finish"
    /\ EventsOf("failed") # {}
    /\ EventsOf("new_chat") # {}
    /\ llm.sess = "new"
    /\ llm.reply = <<"H", "e", "l", "l", "o">>
    /\ Len(BackendCalls) = 1

-----------------------------------------------------------------------------
(* Properties of the LLM session across the fallback stages *)

\* the explicit reset of stage 3 has been made for the current utterance
ResetMade == EventsOf("reset") # {}

-----------------------------------------------------------------------------
(* Properties of the legacy router *)

\* the key and the value of an utterance 'remember: k = v' with k and v not
\* empty (<<>> for any other utterance)
RememberOf(text) ==
    LET s == StrStrip(text)
        colon == FirstIndex(s, ":")
        rest == SubSeq(s, colon + 1, Len(s))
        eq == FirstIndex(rest, "=")
        k == StrStrip(SubSeq(rest, 1, eq - 1))
        v == StrStrip(SubSeq(rest, eq + 1, Len(rest)))
    IN  IF colon = 0 \/ StrLower(StrStrip(SubSeq(s, 1, colon - 1))) # REMEMBER THEN <<>>
        ELSE IF eq = 0 \/ k = <<>> \/ v = <<>> THEN <<>>
        ELSE <<[key |-> k, val |-> v]>>

\* what the step added to the trace
Added == SubSeq(trace', Len(trace) + 1, Len(trace'))

-----------------------------------------------------------------------------
(* The loop over a skill that is scaffolded, reloaded and then asked for *)

MaxNewSkillHeard == 3

ZED == <<"z", "e", "d">>

\* the scaffold and the reload commands, an utterance that has the name of
\* the new skill as a whole word, and one that has the text of its trigger
NewSkillUtterances ==
    { <<"o", "r", "i", "o", "n", ",", " ", "s", "k", "i", "l", "l", " ", "s", "c", "a", "f", "f", "o", "l", "d", " ", "z", "e", "d">>, <<"s", "k", "i", "l", "l", " ", "r", "e", "l", "o", "a", "d">>, <<"a", "s", "k", " ", "z", "e", "d", " ", "n", "o", "w">>,
      <<"s", "a", "y", " ", "\\", "b", "z", "e", "d", "\\", "b">> }

NextNewSkill ==
    \/ \E u \in NewSkillUtterances, v \in BOOLEAN : HearUpTo(MaxNewSkillHeard, u, v)
    \/ Stages
    \/ Respond(LoopStreams, LoopSends, {FALSE})

SpecNewSkill == InitLoop /\ [][NextNewSkill]_vars

\* the file skills/<name>.py is the one scaffold wrote
Scaffolded(name) ==
    \E i \in 1..Len(skillsDir) : skillsDir[i] = ScaffoldModule(name)

\* the text has the name as a whole word
HasWord(text, name) == Search(Cat(<<WB, Lit(name), WB>>), text)

\* C31: once skills/zed.py was written by scaffold and a reload has made
\* zed active, a step of the router stage over an utterance that has zed
\* as a whole word, in which no exception is caught, runs the skill zed,
\* prints its greeting and goes back to listening
C31_ScaffoldedSkillAnswers ==
    [][(/\ lpc = "router"
        /\ trace' # trace
        /\ Scaffolded(ZED)
        /\ ZED \in Names(skills)
        /\ HasWord(utt, ZED)
        /\ \A i \in 1..Len(Added) : Added[i].t \notin {"caught", "raised"})
       => (/\ \E i \in 1..Len(Added) : Added[i] = Ev("run", ZED)
           /\ \E i \in 1..Len(Added) : Added[i] = Ev("print", <<"Hello from ">> \o ZED \o <<"!">>)
           /\ lpc' = "listen")]_vars

\* 'ask zed now' was heard after the scaffold and the reload, and went past
\* the router to llm_respond
C31_Fallthrough ==
    /\ Scaffolded(ZED)
    /\ ZED \in Names(skills)
    /\ utt = <<"a", "s", "k", " ", "z", "e", "d", " ", "n", "o", "w">>
    /\ lpc = "llm_finish"

-----------------------------------------------------------------------------
(* core/memory_bridge.py: memory_answer over questions and stores *)

DEV == <<"d", "e", "v">>

\* the facts of the stores memory_answer is asked over; 'remember:' with
\* nothing after it stores the empty note
AnswerFacts ==
    { <<>>,
      <<Pair(USER_NAME, BEN), Pair(<<"r", "o", "l", "e">>, DEV)>>,
      <<Pair(<<"c", "o", "l", "o", "r">>, <<"r", "e", "d">>), Pair(<<"f", "a", "v", "o", "r", "i", "t", "e", "_", "c", "o", "l", "o", "r">>, <<"b", "l", "u", "e">>)>>,
      <<Pair(<<"f", "a", "v", "o", "r", "i", "t", "e", "_", "c", "o", "l", "o", "r">>, <<"b", "l", "u", "e">>), Pair(<<"n", "a", "m", "e", "_", "t", "a", "g">>, <<"b", "7">>)>>,
      <<Pair(<<"h", "o", "m", "e", "_", "c", "i", "t", "y">>, <<"R", "o", "m", "e">>), Pair(<<"f", "a", "v", "o", "r", "i", "t", "e", "_", "p", "e", "t">>, <<"d", "o", "g">>)>>,
      <<Pair(<<"n", "o", "t", "e">>, <<>>), Pair(<<"t", "i", "m", "e", "z", "o", "n", "e">>, <<"u", "t", "c">>)>> }

AnswerStores ==
    { File(Dumps(Dict(TRUE, f, TRUE, <<>>))) : f \in AnswerFacts } \cup { File(Garbage) }

\* questions of the fixed patterns, of the generic form, of both, of two
\* fixed patterns at once, and texts that are no question
AnswerTexts ==
    { <<"W", "h", "a", "t", "'", "s", " ", "m", "y", " ", "n", "a", "m", "e", "?">>, <<"w", "h", "o", " ", "a", "m", " ", "i">>, <<"w", "h", "e", "r", "e", " ", "d", "o", " ", "i", " ", "l", "i", "v", "e">>, <<"w", "h", "a", "t", " ", "i", "s", " ", "m", "y", " ", "r", "o", "l", "e", " ", "n", "o", "w", "?">>,
      <<"w", "h", "a", "t", " ", "i", "s", " ", "m", "y", " ", "f", "a", "v", "o", "r", "i", "t", "e", " ", "c", "o", "l", "o", "r">>, <<"w", "h", "a", "t", "'", "s", " ", "m", "y", " ", "c", "o", "f", "f", "e", "e", " ", "o", "r", "d", "e", "r">>, <<" ", " ", "W", "H", "A", "T", " ", "I", "S", " ", "M", "Y", " ", "T", "I", "M", "E", "Z", "O", "N", "E", " ">>,
      <<"w", "h", "o", " ", "a", "m", " ", "i", " ", "a", "n", "d", " ", "w", "h", "a", "t", " ", "i", "s", " ", "m", "y", " ", "r", "o", "l", "e">>, <<"w", "h", "a", "t", " ", "i", "s", " ", "m", "y", " ", "n", "a", "m", "e", "-", "t", "a", "g">>,
      <<"w", "h", "a", "t", " ", "i", "s", " ", "m", "y", " ", "c", "o", "l", "o", "r", "?">>, <<"w", "h", "a", "t", "'", "s", " ", "m", "y", " ", "p", "e", "t">>, <<"w", "h", "a", "t", " ", "i", "s", " ", "m", "y", " ", "h", "o", "m", "e", " ", "c", "i", "t", "y", "?">>,
      <<"w", "h", "a", "t", " ", "i", "s", " ", "m", "y", " ", "n", "o", "t", "e">>, <<"w", "h", "a", "t", " ", "i", "s", " ", "m", "y", " ", "x">>, <<"w", "h", "a", "t", " ", "i", "s", " ", "m", "y", " ", "2", "n", "d", " ", "n", "a", "m", "e">>, <<"t", "e", "l", "l", " ", "m", "e">>, <<>> }

\* the answer as a token of a call's result
AnswerTok(text) == [t |-> "answer", a |-> text, b |-> <<>>]

\* memory_answer(mem, text)
AskMemory(text) ==
    LET Step(r) ==
            /\ last' = Call("memory_answer", text, <<>>, r.exc,
                            IF r.ans = <<>> THEN <<>> ELSE <<AnswerTok(r.ans[1])>>)
            /\ UNCHANGED <<memFile, tmpFile, hist, procVars, skillVars, loopVars>>
    IN  Step(MemoryAnswer(memFile, text))

InitAnswer ==
    /\ memFile \in AnswerStores
    /\ tmpFile = NoFile
    /\ last = Call("init", <<>>, <<>>, "none", <<>>)
    /\ hist = <<>>
    /\ ProcInit
    /\ SkillIdle
    /\ LoopIdle

NextAnswer == \E t \in AnswerTexts : AskMemory(t)

SpecAnswer == InitAnswer /\ [][NextAnswer]_vars

\* the entries of QMAP whose pattern is found in the text as memory_answer
\* reads it
FixedMatches(text) ==
    { n \in 1..Len(QMAP) : Search(QMAP[n].rx, StrStrip(StrLower(text))) }

\* the X of a text of the generic form 'what is my X', as a key (<<>> when
\* the text is not of that form)
GenericKey(text) ==
    LET s == StrStrip(StrLower(text))
        starts == { i \in 0..Len(s) :
                      GroupSpans(s, i, Cat(WHAT_IS_MY), GENERIC_GROUP, GENERIC_POST) # {} }
        span == GroupSpan(s, SetMin(starts), Cat(WHAT_IS_MY), GENERIC_GROUP, GENERIC_POST)
    IN  IF starts = {} THEN <<>>
        ELSE <<StrReplace(StrReplace(StrStrip(SubSeq(s, span[1] + 1, span[2])), "-", "_"),
                          " ", "_")>>

\* "I don't have your <key with spaces> yet."
Missing(key) == <<"I don't have your ">> \o StrReplace(key, "_", " ") \o <<" yet.">>

-----------------------------------------------------------------------------
(* The loop over skill commands that are none of the five *)

\* texts in which the word skill or skills is followed by a separator and
\* by a text that is no command
MalformedCommands ==
    { <<"s", "k", "i", "l", "l", " ", "f", "o", "o">>, <<"w", "h", "a", "t", " ", "s", "k", "i", "l", "l", "s", ",", " ", "d", "o", " ", "y", "o", "u", " ", "h", "a", "v", "e">>, <<"S", "k", "i", "l", "l", " ", "s", "c", "a", "f", "f", "o", "l", "d">>, <<"s", "k", "i", "l", "l", "s", ":", " ", "e", "n", "a", "b", "l", "e">>,
      <<"S", "K", "I", "L", "L", " ", "-", " ">> }

\* the malformed commands, said with or without the wake word, and an
\* utterance that is no command
UsageUtterances ==
    MalformedCommands
    \cup { <<"o", "r", "i", "o", "n", ",", " ">> \o c : c \in MalformedCommands }
    \cup { <<"o", "r", "i", "o", "n", " ", "t", "e", "l", "l", " ", "m", "e">> }

NextUsage ==
    \/ \E u \in UsageUtterances, v \in BOOLEAN : Hear(u, v)
    \/ Stages
    \/ Respond(LoopStreams, LoopSends, {FALSE})
    \/ \E f \in LoopEdits : LoopEdit(f)

SpecUsage == InitLoop /\ [][NextUsage]_vars

\* the facts of the store file f (none when it cannot be read)
FactsIn(f) == IF MemRead(f).exc = "none" THEN GetFacts(MemRead(f).data) ELSE <<>>

\* the skill admin stage is run over a malformed command
MalformedStep ==
    /\ lpc = "skill_admin"
    /\ trace' # trace
    /\ StrStrip(utt) \in { StrStrip(c) : c \in MalformedCommands }

\* the step raises nothing
NothingRaised == \A i \in 1..Len(Added) : Added[i].t # "raised"

\* C33: a step of the skill admin stage over a malformed command prints the
\* usage message, leaves the enable-state file, the skills directory, the
\* active set, the rules and the facts as they were, raises no error and
\* consumes the utterance: the loop listens again and no later stage is
\* entered. (Over a store file that cannot be read the append of the bot
\* turn raises after the usage message was printed.)
C33_UsageConsumes ==
    [][MalformedStep =>
          /\ \E i \in 1..Len(Added) : Added[i] = Ev("print", USAGE)
          /\ stateFile' = stateFile
          /\ skillsDir' = skillsDir
          /\ skills' = skills
          /\ rules' = rules
          /\ FactsIn(memFile') = FactsIn(memFile)
          /\ \A i \in 1..Len(Added) : Added[i].t = "stage" => Added[i] = Stage("skill_admin")
          /\ IF MemRead(memFile).exc = "none"
             THEN NothingRaised /\ lpc' = "listen"
             ELSE lpc' = "ended"]_vars

\* 'what skills, do you have' was answered with the usage message by the
\* skill admin stage, and the loop listens again
C33_Witness ==
    /\ lpc = "listen"
    /\ utt = <<"w", "h", "a", "t", " ", "s", "k", "i", "l", "l", "s", ",", " ", "d", "o", " ", "y", "o", "u", " ", "h", "a", "v", "e">>
    /\ StagesEntered = <<"skill_admin">>
    /\ \E i \in EventsOf("print") : trace[i] = Ev("print", USAGE)
    /\ EventsOf("raised") = {}

-----------------------------------------------------------------------------
(* core/memory_bridge.py: relevant_facts over stores, texts and limits *)

MaxLimit == 3

\* the facts of the stores relevant_facts is asked over: preferred keys
\* out of priority order, and keys that are not preferred
RelevantStores ==
    { File(Dumps(Dict(TRUE, f, TRUE, <<>>))) :
        f \in { <<>>,
                <<Pair(USER_NAME, BEN)>>,
                <<Pair(<<"t", "i", "m", "e", "z", "o", "n", "e">>, <<"u", "t", "c">>), Pair(<<"r", "o", "l", "e">>, DEV), Pair(USER_NAME, BEN)>>,
                <<Pair(<<"p", "e", "t">>, <<"c", "a", "t">>), Pair(<<"u", "n", "i", "t", "s">>, <<"s", "i">>), Pair(<<"r", "o", "l", "e">>, DEV)>>,
                <<Pair(<<"p", "e", "t", "_", "n", "a", "m", "e">>, <<"R", "e", "x">>), Pair(<<"p", "e", "t">>, <<"c", "a", "t">>)>>,
                <<Pair(<<"u", "n", "i", "t", "s">>, <<"s", "i">>), Pair(<<"h", "o", "m", "e", "_", "c", "i", "t", "y">>, <<"R", "o", "m", "e">>), Pair(<<"r", "o", "l", "e">>, DEV),
                  Pair(USER_NAME, BEN)>> } }

\* texts with no word of a key, with the word of one key, and with words of
\* several keys
RelevantTexts ==
    { <<"t", "e", "l", "l", " ", "m", "e">>, <<"m", "y", " ", "P", "e", "t">>, <<"t", "h", "e", " ", "n", "a", "m", "e", " ", "a", "n", "d", " ", "r", "o", "l", "e", " ", "o", "f", " ", "m", "y", " ", "p", "e", "t">>, <<"a", " ", "s", "t", "r", "o", "l", "l", "e", "r">>, <<>> }

\* relevant_facts(mem, text, limit)
AskRelevant(text, limit) ==
    LET Step(r) ==
            /\ last' = Call("relevant_facts", text, Digits(limit), r.exc, r.ret)
            /\ UNCHANGED <<memFile, tmpFile, hist, procVars, skillVars, loopVars>>
    IN  Step(RelevantFacts(memFile, text, limit))

InitRelevant ==
    /\ memFile \in RelevantStores
    /\ tmpFile = NoFile
    /\ last = Call("init", <<>>, <<>>, "none", <<>>)
    /\ hist = <<>>
    /\ ProcInit
    /\ SkillIdle
    /\ LoopIdle

NextRelevant == \E t \in RelevantTexts, n \in 0..MaxLimit : AskRelevant(t, n)

SpecRelevant == InitRelevant /\ [][NextRelevant]_vars

\* the limit of the call
LimitOf(call) == CHOOSE n \in 0..(MaxLimit + 1) : Digits(n) = call.b

\* the preferred keys the store has a value for, with the value, in the
\* order of the priority list
PreferredInStore ==
    SelectSeq([i \in 1..Len(PREFERRED_FACT_KEYS) |->
                  Pair(PREFERRED_FACT_KEYS[i],
                       TextOf(FactOf(memFile, PREFERRED_FACT_KEYS[i])))],
              LAMBDA p : FactOf(memFile, p.a) # <<>>)

\* no word of a key of the store occurs in the text
NoKeyWord(text) ==
    \A i \in 1..Len(FactsIn(memFile)) : ~KeyWordIn(FactsIn(memFile)[i].a, StrLower(text))

\* the first n elements of a sequence
FirstN(s, n) == SubSeq(s, 1, IF n < Len(s) THEN n ELSE Len(s))

\* C34: relevant_facts returns at most limit pairs, for every limit from 0
\* on, with no key twice, each of them a fact of the store; when no word of
\* a stored key occurs in the text these are the preferred keys that have
\* values, in priority order
C34_AtMostLimit ==
    last.op = "relevant_facts" =>
        /\ last.exc = "none"
        /\ Len(last.ret) <= LimitOf(last)
        /\ \A i, j \in 1..Len(last.ret) : i # j => last.ret[i].a # last.ret[j].a
        /\ \A i \in 1..Len(last.ret) :
              \E k \in 1..Len(FactsIn(memFile)) : FactsIn(memFile)[k] = last.ret[i]
        /\ NoKeyWord(last.a) => last.ret = FirstN(PreferredInStore, LimitOf(last))

\* the same for every limit from 1 on
C34_AtMostLimitFromOne ==
    (last.op = "relevant_facts" /\ LimitOf(last) >= 1) =>
        /\ last.exc = "none"
        /\ Len(last.ret) <= LimitOf(last)
        /\ \A i, j \in 1..Len(last.ret) : i # j => last.ret[i].a # last.ret[j].a
        /\ \A i \in 1..Len(last.ret) :
              \E k \in 1..Len(FactsIn(memFile)) : FactsIn(memFile)[k] = last.ret[i]
        /\ NoKeyWord(last.a) => last.ret = FirstN(PreferredInStore, LimitOf(last))

-----------------------------------------------------------------------------
(* Properties of the conversation log *)

\* the turns the step wrote to the log
TurnsAdded == SubSeq(hist', Len(hist) + 1, Len(hist'))

\* the appends of the current utterance made by line 155, which follows the
\* fast path directly, and those made by say() and by llm_respond
UserAppends == { i \in EventsOf("append") : i > 1 /\ trace[i - 1] = Stage("fast") }
BotAppends == EventsOf("append") \ UserAppends

\* an admin handler or the fast path took the utterance: the last stage
\* entered is one of them and it printed its reply
ConsumedEarly ==
    /\ StagesEntered[Len(StagesEntered)] \in {"skill_admin", "memory_admin", "fast"}
    /\ EventsOf("print") # {}

\* the log of the current utterance: one bot turn, and a user turn exactly
\* when neither an admin handler nor the fast path took the utterance,
\* before the bot turn and with the utterance as its text
OneBotTurn ==
    /\ Cardinality(BotAppends) = 1
    /\ UserAppends = {} <=> ConsumedEarly
    /\ \A u \in UserAppends :
          /\ trace[u].a = utt
          /\ \A b \in BotAppends : u < b

\* C35: once an utterance that entered the pipeline has been dealt with
\* (the loop listens again, or has ended), exactly one bot turn was appended
\* for it, and a user turn exactly when neither an admin handler nor the
\* fast path consumed it, before the bot turn and holding the utterance
\* without the preface of facts
C35_OneBotTurnPerUtterance ==
    (StagesEntered # <<>> /\ lpc \in {"listen", "ended"}) => OneBotTurn

\* the same for the utterances after which the loop listens again
C35_OneBotTurnWhenListening ==
    (StagesEntered # <<>> /\ lpc = "listen") => OneBotTurn

\* the events named append are the writes of turns: a step adds a user turn
\* only at line 155, with the utterance as text, and any other step that
\* writes adds one bot turn
AppendsAreTurns ==
    [][lpc # "listen" =>
       /\ Len(TurnsAdded) <= 1
       /\ Len(TurnsAdded) = Cardinality({ i \in 1..Len(Added) : Added[i].t = "append" })
       /\ (TurnsAdded # <<>> /\ lpc = "log_user") => TurnsAdded = <<TurnU(utt)>>
       /\ (TurnsAdded # <<>> /\ lpc # "log_user") => TurnsAdded[1].t = "turnB"]_vars

-----------------------------------------------------------------------------
(* Properties of the wake logic *)

\* the text has one of the sleep terms as whole words
HasSleepTerm(text) == \E i \in 1..Len(SLEEP_TERMS) : HasWord(text, SLEEP_TERMS[i])

\* the step takes the next utterance
Hears == lpc = "listen" /\ heard' # heard

\* the utterance the step takes
HeardText == trace'[1].a

\* C36: the awake flag changes only when an utterance is taken; an utterance
\* without the wake word taken while asleep is dropped (no reply, no call,
\* no change of the store, of the log or of the enable-state, the stages
\* are not entered); the flag turns true only on an utterance with the
\* wake word and false only on an utterance with a sleep term taken while
\* awake, which is not handed to the stages; and the stages are entered
\* only while awake
C36_AwakeGate ==
    [][/\ awake' # awake => Hears
       /\ (Hears /\ ~awake /\ ~HasWord(HeardText, WAKE)) =>
             /\ ~awake'
             /\ lpc' \in {"listen", "ended"}
             /\ \A i \in 1..Len(trace') : trace'[i].t \in {"heard", "shutdown"}
             /\ UNCHANGED <<memFile, tmpFile, hist, stateFile, skills, rules, llm>>
       /\ (Hears /\ ~awake /\ awake') => HasWord(HeardText, WAKE)
       /\ (Hears /\ awake /\ ~awake') =>
             /\ HasSleepTerm(HeardText)
             /\ lpc' \in {"listen", "ended"}
             /\ utt' = <<>>
       /\ lpc' \notin {"listen", "ended", "off"} => awake']_vars

\* 'reload' was said while asleep, after a first utterance: nothing was done
\* for it
C36_Witness ==
    /\ ~awake
    /\ heard = 2
    /\ lpc = "listen"
    /\ trace = <<Ev("heard", <<"r", "e", "l", "o", "a", "d">>)>>

\* 'go to sleep' was said while awake: the assistant sleeps and the stages
\* were not entered
C36_WitnessSleep ==
    /\ ~awake
    /\ lpc = "listen"
    /\ trace # <<>>
    /\ trace[1] = Ev("heard", <<"g", "o", " ", "t", "o", " ", "s", "l", "e", "e", "p">>)
    /\ StagesEntered = <<>>
    /\ \E i \in EventsOf("print") : trace[i].a = GOING_TO_SLEEP

-----------------------------------------------------------------------------
(* Properties of the capture workers *)

\* the worker threads that are inside recorder.text()
Capturing == { w \in 1..Len(mic.workers) : mic.workers[w].st = "running" }

\* C37: at most one worker thread is inside recorder.text() at any time, so
\* that a call of mic_text never starts a thread while the thread of an
\* earlier call that timed out is still running
C37_OneCaptureWorker == Cardinality(Capturing) <= 1

\* the thread of a call that timed out took a text from the recorder after
\* the next call had started its own thread: the text is in no call's result
C37_LostUtterance ==
    /\ Len(mic.workers) >= 2
    /\ Len(mic.out) >= 2
    /\ mic.out[1] = MicOut("none", <<>>)
    /\ mic.workers[1] = Worker("done", << <<"h", "i">> >>, FALSE, 1)
    /\ mic.workers[2].st = "done"
    /\ \A k \in 1..Len(mic.out) : mic.out[k].text # <<"h", "i">>

-----------------------------------------------------------------------------
(* Properties of the reply shown by llm_respond *)

\* what the console shows after "Orion:" for the current utterance, white
\* space at its ends left aside: the chunks printed, or the text printed
Shown ==
    IF EventsOf("print_chunk") # {} THEN Streamed
    ELSE IF EventsOf("print") = {} THEN <<>>
    ELSE StrStrip(trace[CHOOSE i \in EventsOf("print") : TRUE].a)

\* llm_respond has returned for the current utterance
Responded == EnteredAt("llm") # 0 /\ lpc = "listen"

\* the reply that was spoken (or tried) and appended is what was shown
ShownIsReply ==
    /\ Shown = llm.reply
    /\ \E i \in EventsOf("speak") \cup EventsOf("speak_raised") : trace[i].a = llm.reply
    /\ trace[Len(trace)] = Ev("append", llm.reply)

\* C38: when llm_respond has returned, the text shown on the console is the
\* final reply, the one spoken and appended to the log, whatever stage
\* supplied it
C38_ShownReplyIsFinalReply == Responded => ShownIsReply

\* the same for the paths on which the stream printed nothing, or printed
\* chunks that do not strip to the empty text
C38_ShownUnlessBlankStream ==
    (Responded /\ (EventsOf("print_chunk") = {} \/ Streamed # <<>>)) => ShownIsReply

\* the stream printed white space only, the send supplied "Hello", which
\* was spoken and logged and never shown
C38_BlankShown ==
    /\ Responded
    /\ EventsOf("print_chunk") # {}
    /\ Shown = <<>>
    /\ EventsOf("print") = {}
    /\ llm.reply = <<"H", "e", "l", "l", "o">>

-----------------------------------------------------------------------------
(* What the calls of the Fact Store leave alone *)

\* the keys of a dict
KeysOf(facts) == { facts[i].a : i \in 1..Len(facts) }

\* the call of this step was given neither a user nor a bot text
NoTexts == last'.op = "append" /\ last'.ret = <<>>

\* C39: remember(k, v) leaves the conversations and every fact other than k
\* as they were; append_conversation leaves the facts as they were; recall,
\* facts_like and append_conversation(None, None) write nothing, the files
\* of the store are what they were.
C39_CallsLeaveTheRest ==
    [][/\ last'.op = "remember" =>
             /\ ConvOf(memFile') = ConvOf(memFile)
             /\ \A k \in KeysOf(FactsIn(memFile)) \cup KeysOf(FactsIn(memFile')) :
                   k # last'.a => DictGet(FactsIn(memFile'), k) = DictGet(FactsIn(memFile), k)
       /\ last'.op = "append" => FactsIn(memFile') = FactsIn(memFile)
       /\ (last'.op \in {"recall", "facts_like"} \/ NoTexts) =>
             /\ memFile' = memFile
             /\ tmpFile' = tmpFile]_vars

\* remember has overwritten one of two facts of a store that holds turns
C39_Witness ==
    /\ last.op = "remember" /\ last.exc = "none"
    /\ ConvOf(memFile) # <<>>
    /\ Cardinality(KeysOf(FactsIn(memFile))) = 2

\* append_conversation(None, None) has returned over a file without a
\* conversations member that holds a fact
C39_WitnessNoTexts ==
    /\ last.op = "append" /\ last.a = <<>> /\ last.b = <<>> /\ last.ret = <<>>
    /\ last.exc = "none"
    /\ FactsIn(memFile) # <<>>
    /\ ~MemRead(memFile).data.hasConv

====
